---------------------------- MODULE Spec2Model ----------------------------
(***************************************************************************)
(* Model of the StarForge chart engine.                                    *)
(*                                                                         *)
(*   calculate_celestial_positions  (src/Starforge/astronomy.py)           *)
(*   SVGChart                       (src/Starforge/renderer.py)            *)
(*                                                                         *)
(* Arithmetic.  The code works on Python floats; the model works on a      *)
(* fixed-point grid.  A length of 1.0 in the normalized plane is ONE       *)
(* units, so 0.01 is num_segments units: every star coordinate of the      *)
(* model is a multiple of num_segments and the 13 samples of a line are    *)
(* exact.  Canvas coordinates are kept in 1/ONE pixels.  hypot, the        *)
(* divisions of the two distortions and sin are rounded, as stated at      *)
(* their definitions; comparisons, sums and products are exact.            *)
(***************************************************************************)
EXTENDS Integers, Sequences, FiniteSets, TLC

(***************************************************************************)
(* Bounds of the model and constants of the program.                       *)
(***************************************************************************)
NumStars == 3

num_segments == 12

ONE == num_segments * 100

width_px == 1000

height_px == 1000

border_width == 2

\* 0.03 ** 2 in squared fixed-point units
min_dist_sq == ((3 * ONE) \div 100) * ((3 * ONE) \div 100)

\* edge_start = 0.9, the default the renderer always uses
edge_start == (9 * ONE) \div 10

NoBounds == <<>>

(***************************************************************************)
(* Generic helpers.                                                        *)
(***************************************************************************)
Range(s) == {s[i] : i \in DOMAIN s}

Min(a, b) == IF a < b THEN a ELSE b

Max(a, b) == IF a > b THEN a ELSE b

\* a / b rounded to the nearest integer, for b > 0
RDiv(a, b) == (2 * a + b) \div (2 * b)

RECURSIVE IsqrtIter(_, _, _)
IsqrtIter(n, lo, hi) ==
    IF lo >= hi THEN lo
    ELSE LET mid == (lo + hi + 1) \div 2
         IN  IF mid * mid <= n THEN IsqrtIter(n, mid, hi)
                               ELSE IsqrtIter(n, lo, mid - 1)

\* floor of the square root
Isqrt(n) == IsqrtIter(n, 0, Min(n, 40000))

\* math.hypot on fixed-point operands, rounded down to the grid
hypot(x, y) == Isqrt(x * x + y * y)

(***************************************************************************)
(* State.                                                                  *)
(***************************************************************************)
VARIABLES
    stars_df,                       \* the catalog, in catalog order
    constellations,                 \* sequence of [name, lines]
    magnitude_limit,
    config,                         \* the Config handed to SVGChart
    _fov_radius_deg,                \* the field of view StarForge keeps for itself
    pc,
    constellation_stars_to_render,
    background_stars_to_filter,
    background_star_candidates,
    final_background_stars,
    occupied_positions,
    cand_i,                         \* candidates the declutter loop has handled
    visible_stars,
    scale_factor,
    star_hip_map,
    constellation_lines_map,
    constellation_star_ids,
    constellation_visible_star_ids,
    polylines,
    star_glyphs,
    labels,
    main_group,                     \* the groups added to main_group, in order
    dwg,                            \* the top-level elements of the drawing, in order
    procedural_samples,             \* one entry per iteration of the scatter loop
    call,                           \* a direct call of a distortion function
    result,                         \* what the call returned
    _location_query,                \* the fields of a StarForge object
    _verbose,
    _latitude,
    _longitude,
    _place_name,
    _location_resolved,
    _datetime,
    _astronomy_loaded,
    _visible_stars,
    _calculated,
    _config,
    _magnitude_limit,
    _show_labels,
    _level,                         \* Log._level
    clock,                          \* what datetime.now() returns: the calls made so far
    last_call                       \* what the last call of the public API did

calcVars == <<constellation_stars_to_render, background_stars_to_filter,
              background_star_candidates, final_background_stars,
              occupied_positions, cand_i, visible_stars>>

chartVars == <<scale_factor, star_hip_map, constellation_lines_map,
               constellation_star_ids, constellation_visible_star_ids,
               polylines, star_glyphs, labels>>

\* the StarForge object without its field of view, the log level and the clock
forgeVars == <<_location_query, _verbose, _latitude, _longitude, _place_name,
               _location_resolved, _datetime, _astronomy_loaded, _visible_stars,
               _calculated, _config, _magnitude_limit, _show_labels, _level,
               clock, last_call>>

inputVars == <<stars_df, constellations, magnitude_limit, _fov_radius_deg, forgeVars>>

sceneVars == <<main_group, dwg, procedural_samples>>

fnVars == <<call, result>>

vars == <<stars_df, constellations, magnitude_limit, config, _fov_radius_deg, pc,
          constellation_stars_to_render, background_stars_to_filter,
          background_star_candidates, final_background_stars,
          occupied_positions, cand_i, visible_stars, scale_factor, star_hip_map,
          constellation_lines_map, constellation_star_ids,
          constellation_visible_star_ids, polylines, star_glyphs, labels,
          main_group, dwg, procedural_samples, call, result, forgeVars>>

(***************************************************************************)
(* calculate_celestial_positions                                           *)
(***************************************************************************)
\* only the start of each line is collected
StartIdsOnly(cons) ==
    UNION { UNION { {l[1]} : l \in Range(c.lines) } : c \in Range(cons) }

\* every id that is an endpoint of a line of a constellation
ConstellationStarIds(cons) ==
    UNION { UNION { {l[1], l[2]} : l \in Range(c.lines) } : c \in Range(cons) }

\* the record built for a star above the horizon
star_data(row) == [x |-> row.x, y |-> row.y, hip |-> row.hip, mag |-> row.mag]

\* the horizon itself counts as visible
IsOnOrAboveHorizon(row) == row.alt >= 0

IsAboveHorizon(row) == row.alt > 0

RECURSIVE ProjectVisible(_)
ProjectVisible(rows) ==
    IF rows = <<>> THEN <<>>
    ELSE IF IsAboveHorizon(Head(rows))
         THEN <<star_data(Head(rows))>> \o ProjectVisible(Tail(rows))
         ELSE ProjectVisible(Tail(rows))

IsMember(s, ids) == s.hip \in ids

ClassifyStars ==
    /\ pc = "classify"
    /\ LET ids  == ConstellationStarIds(constellations)
           seen == ProjectVisible(stars_df)
       IN  /\ constellation_stars_to_render' =
                  SelectSeq(seen, LAMBDA s : IsMember(s, ids))
           /\ background_stars_to_filter' =
                  SelectSeq(seen, LAMBDA s : ~IsMember(s, ids))
    /\ pc' = "filter"
    /\ UNCHANGED <<inputVars, fnVars, sceneVars, config, background_star_candidates,
                   final_background_stars, occupied_positions, cand_i,
                   visible_stars, chartVars>>

\* the magnitude filter is skipped
AnyMagnitude(s, limit) == TRUE

WithinMagnitude(s, limit) == s.mag <= limit

\* list.sort(key = mag): stable insertion of s into an already sorted list
RECURSIVE InsertByMag(_, _)
InsertByMag(s, sorted) ==
    IF sorted = <<>> THEN <<s>>
    ELSE IF s.mag < Head(sorted).mag
         THEN <<s>> \o sorted
         ELSE <<Head(sorted)>> \o InsertByMag(s, Tail(sorted))

\* the candidates stay in catalog order
Unsorted(seq) == seq

RECURSIVE SortByMag(_)
SortByMag(seq) ==
    IF seq = <<>> THEN <<>>
    ELSE InsertByMag(seq[Len(seq)], SortByMag(SubSeq(seq, 1, Len(seq) - 1)))

\* the occupied list starts empty
SeedNothing(members) == <<>>

SeedOccupied(members) == [i \in DOMAIN members |-> <<members[i].x, members[i].y>>]

FilterAndSort ==
    /\ pc = "filter"
    /\ background_star_candidates' =
           SortByMag(SelectSeq(background_stars_to_filter,
                               LAMBDA s : WithinMagnitude(s, magnitude_limit)))
    /\ final_background_stars' = <<>>
    /\ occupied_positions' = SeedOccupied(constellation_stars_to_render)
    /\ cand_i' = 0
    /\ pc' = "declutter"
    /\ UNCHANGED <<inputVars, fnVars, sceneVars, config, constellation_stars_to_render,
                   background_stars_to_filter, visible_stars, chartVars>>

DistSq(x, y, occ) == (x - occ[1]) * (x - occ[1]) + (y - occ[2]) * (y - occ[2])

\* the squared distance is compared with 0.03, not with 0.03 ** 2
TooCloseUnsquared(dist_sq) == dist_sq < (3 * ONE) \div 100

TooClose(dist_sq) == dist_sq < min_dist_sq

\* a candidate is also rejected at exactly the minimum distance
is_too_close_or_touching(cand, occupied) ==
    \E j \in DOMAIN occupied : DistSq(cand.x, cand.y, occupied[j]) <= min_dist_sq

is_too_close(cand, occupied) ==
    \E i \in DOMAIN occupied : TooClose(DistSq(cand.x, cand.y, occupied[i]))

\* an accepted star does not occupy its position
OccupyNothing(occupied, cand) == occupied

Occupy(occupied, cand) == Append(occupied, <<cand.x, cand.y>>)

\* one iteration of the declutter loop, on the next candidate
DeclutterStep ==
    /\ pc = "declutter"
    /\ cand_i < Len(background_star_candidates)
    /\ LET cand == background_star_candidates[cand_i + 1]
       IN  IF is_too_close(cand, occupied_positions)
           THEN UNCHANGED <<final_background_stars, occupied_positions>>
           ELSE /\ final_background_stars' = Append(final_background_stars, cand)
                /\ occupied_positions' = Occupy(occupied_positions, cand)
    /\ cand_i' = cand_i + 1
    /\ UNCHANGED <<inputVars, fnVars, sceneVars, config, pc, constellation_stars_to_render,
                   background_stars_to_filter, background_star_candidates,
                   visible_stars, chartVars>>

ReturnVisible ==
    /\ pc = "declutter"
    /\ cand_i = Len(background_star_candidates)
    /\ visible_stars' = constellation_stars_to_render \o final_background_stars
    /\ pc' = "chart"
    /\ UNCHANGED <<inputVars, fnVars, sceneVars, config, constellation_stars_to_render,
                   background_stars_to_filter, background_star_candidates,
                   final_background_stars, occupied_positions, cand_i,
                   chartVars>>

(***************************************************************************)
(* The two distortions of renderer.py, on fixed-point operands.            *)
(***************************************************************************)
\* (-y, x) / |(-y, x)| * bend, each division rounded to the nearest unit
\* the push goes along the radius
RadialPush(x, y, bend) ==
    LET radial_len == hypot(x, y)
    IN  IF radial_len = 0 THEN <<x, y>>
        ELSE <<x + RDiv(RDiv(x * ONE, radial_len) * bend, ONE),
               y + RDiv(RDiv(y * ONE, radial_len) * bend, ONE)>>

TangentPush(x, y, bend) ==
    LET nx == 0 - y
        ny == x
        tangent_len == hypot(nx, ny)
    IN  IF tangent_len = 0 THEN <<x, y>>
        ELSE <<x + RDiv(RDiv(nx * ONE, tangent_len) * bend, ONE),
               y + RDiv(RDiv(ny * ONE, tangent_len) * bend, ONE)>>

\* t = clamp((r - edge_start) / (1 - edge_start), 0, 1), in units of 1/ONE
EdgeFalloff(r) == Min(Max(RDiv((r - edge_start) * ONE, ONE - edge_start), 0), ONE)

tangential_edge_bend(x, y, strength) ==
    LET r == hypot(x, y)
    IN  IF x * x + y * y < edge_start * edge_start THEN <<x, y>>
        ELSE LET t == EdgeFalloff(r)
             IN  TangentPush(x, y, RDiv(strength * t * t, ONE * ONE))

\* Bhaskara's rational approximation of sin on half a period:
\* sin(k * pi/2) ~ 4q / (5 - q) with q = k (2 - k), for 0 <= k <= 2
SinHalfPeriod(k) ==
    LET q == k * (2 * ONE - k)
    IN  RDiv(4 * q, RDiv(5 * ONE * ONE - q, ONE))

\* math.sin(r * pi/2) for r >= 0, in units of 1/ONE
SinHalfPi(r) ==
    LET m == r % (4 * ONE)
    IN  IF m <= 2 * ONE THEN SinHalfPeriod(m)
                        ELSE 0 - SinHalfPeriod(m - 2 * ONE)

\* the two weights of the blend exchanged
GlobeBlendSwapped(x, y, strength) ==
    LET r == hypot(x, y)
    IN  IF r < 1 THEN <<x, y>>
        ELSE LET r_ortho == SinHalfPi(r)
                 r_blended == RDiv(r * strength + r_ortho * (ONE - strength), ONE)
                 scale == RDiv(r_blended * ONE, r)
             IN  <<RDiv(x * scale, ONE), RDiv(y * scale, ONE)>>

simulate_globe_projection(x, y, strength) ==
    LET r == hypot(x, y)
    IN  \* r < 1e-6 is r = 0 on the grid
        IF r < 1 THEN <<x, y>>
        ELSE LET r_ortho == SinHalfPi(r)
                 r_blended == RDiv(r * (ONE - strength) + r_ortho * strength, ONE)
                 scale == RDiv(r_blended * ONE, r)
             IN  <<RDiv(x * scale, ONE), RDiv(y * scale, ONE)>>

(***************************************************************************)
(* SVGChart                                                                *)
(***************************************************************************)
center_x == width_px \div 2

center_y == height_px \div 2

radius == (Min(width_px, height_px) \div 2) - border_width

\* the one transform a chart applies to a scaled point
Distort(cfg, u, v) ==
    IF cfg.sphere_effect
    THEN simulate_globe_projection(u, v, cfg.sphere_distortion_strength)
    ELSE tangential_edge_bend(u, v, cfg.bend_strength)

\* center + point * radius, in 1/ONE pixels
ToCanvas(p) == <<p[1] * radius + center_x * ONE, p[2] * radius + center_y * ONE>>

\* only the vertical extent is tested
PointInBoundsYOnly(cfg, p) ==
    IF cfg.bounds = NoBounds THEN TRUE
    ELSE cfg.bounds[2] * ONE <= p[2] /\ p[2] <= cfg.bounds[4] * ONE

_point_in_bounds(cfg, p) ==
    IF cfg.bounds = NoBounds THEN TRUE
    ELSE /\ cfg.bounds[1] * ONE <= p[1] /\ p[1] <= cfg.bounds[3] * ONE
         /\ cfg.bounds[2] * ONE <= p[2] /\ p[2] <= cfg.bounds[4] * ONE

\* any() in place of all()
AnyPointFits(cfg, pts) == \E i \in DOMAIN pts : _point_in_bounds(cfg, pts[i])

_polyline_fits_bounds(cfg, pts) == \A i \in DOMAIN pts : _point_in_bounds(cfg, pts[i])

\* only a zero field of view is replaced
CorrectedFovZeroOnly(fov) == IF fov = 0 THEN 90 ELSE fov

\* fov <= 0 is replaced by 90
CorrectedFov(fov) == IF fov <= 0 THEN 90 ELSE fov

\* 90.0 / fov, in units of 1/ONE
ScaleFactor(fov) == RDiv(90 * ONE, fov)

StarHipMap(stars) ==
    [h \in {stars[i].hip : i \in DOMAIN stars} |->
        LET last == CHOOSE i \in DOMAIN stars :
                        /\ stars[i].hip = h
                        /\ \A j \in DOMAIN stars : stars[j].hip = h => j <= i
        IN  stars[last]]

\* dict comprehension over (name, lines): a name keeps its first place and
\* its last list of lines
ConstellationLinesMap(cons) ==
    LET firsts == SelectSeq([i \in DOMAIN cons |-> i],
                            LAMBDA i : \A j \in 1..(i - 1) : cons[j].name # cons[i].name)
        lastOf(n) == CHOOSE i \in DOMAIN cons :
                        /\ cons[i].name = n
                        /\ \A j \in DOMAIN cons : cons[j].name = n => j <= i
    IN  [k \in DOMAIN firsts |->
            [name |-> cons[firsts[k]].name, lines |-> cons[lastOf(cons[firsts[k]].name)].lines]]

\* the background rect and the main group
_setup_drawing == <<"rect", "main_group">>

\* stars before lines
render_steps_stars_first == <<"stars", "lines", "labels", "procedural", "border", "done">>

\* the order in which render() runs its steps
render_steps == <<"lines", "stars", "labels", "procedural", "border", "done">>

StepAfter(step) ==
    LET k == CHOOSE i \in DOMAIN render_steps : render_steps[i] = step
    IN  render_steps[k + 1]

_get_constellation_star_ids(cons) ==
    UNION { UNION { {l[1], l[2]} : l \in Range(c.lines) } : c \in Range(cons) }

NewChart ==
    /\ pc = "chart"
    /\ config' = [config EXCEPT !.fov_radius_deg = CorrectedFov(config.fov_radius_deg)]
    /\ scale_factor' = ScaleFactor(CorrectedFov(config.fov_radius_deg))
    /\ star_hip_map' = StarHipMap(visible_stars)
    /\ constellation_lines_map' = ConstellationLinesMap(constellations)
    /\ constellation_star_ids' = _get_constellation_star_ids(constellations)
    /\ constellation_visible_star_ids' = {}
    /\ polylines' = <<>>
    /\ star_glyphs' = <<>>
    /\ labels' = <<>>
    /\ main_group' = <<>>
    /\ dwg' = _setup_drawing
    /\ procedural_samples' = <<>>
    /\ pc' = render_steps[1]
    /\ UNCHANGED <<inputVars, fnVars, calcVars>>

\* every (start, end) pair in the order the nested loops visit them
RECURSIVE AllLines(_)
AllLines(cons) ==
    IF cons = <<>> THEN <<>> ELSE Head(cons).lines \o AllLines(Tail(cons))

HasBothEndpoints(map, line) == line[1] \in DOMAIN map /\ line[2] \in DOMAIN map

\* y is not flipped
ScaledUnflipped(star, scale) == <<RDiv(star.x * scale, ONE), RDiv(star.y * scale, ONE)>>

\* the scaled, y-flipped plane point of a star
Scaled(star, scale) == <<RDiv(star.x * scale, ONE), RDiv((0 - star.y) * scale, ONE)>>

\* sample i of num_segments + 1 along the straight segment, then distorted
SamplePoint(cfg, p1, p2, i) ==
    LET u == p1[1] + ((p2[1] - p1[1]) * i) \div num_segments
        v == p1[2] + ((p2[2] - p1[2]) * i) \div num_segments
    IN  ToCanvas(Distort(cfg, u, v))

pts_canvas(cfg, map, scale, line) ==
    [k \in 1..(num_segments + 1) |->
        SamplePoint(cfg, Scaled(map[line[1]], scale), Scaled(map[line[2]], scale), k - 1)]

LineIsDrawn(cfg, map, scale, line) ==
    /\ HasBothEndpoints(map, line)
    /\ _polyline_fits_bounds(cfg, pts_canvas(cfg, map, scale, line))

\* the loop stops at the first line with a missing endpoint
DrawnLinesUntilMissing(cfg, map, scale, cons) ==
    LET all == AllLines(cons)
        firstMissing ==
            IF \A i \in DOMAIN all : HasBothEndpoints(map, all[i])
            THEN Len(all) + 1
            ELSE CHOOSE i \in DOMAIN all :
                     /\ ~HasBothEndpoints(map, all[i])
                     /\ \A j \in 1..(i - 1) : HasBothEndpoints(map, all[j])
    IN  SelectSeq(SubSeq(all, 1, firstMissing - 1),
                  LAMBDA l : LineIsDrawn(cfg, map, scale, l))

DrawnLines(cfg, map, scale, cons) ==
    SelectSeq(AllLines(cons), LAMBDA l : LineIsDrawn(cfg, map, scale, l))

_draw_constellations ==
    /\ pc = "lines"
    /\ LET drawn == DrawnLines(config, star_hip_map, scale_factor, constellations)
       IN  /\ polylines' =
                  [k \in DOMAIN drawn |->
                      [start_hip |-> drawn[k][1], end_hip |-> drawn[k][2],
                       points |-> pts_canvas(config, star_hip_map, scale_factor, drawn[k])]]
           /\ constellation_visible_star_ids' =
                  UNION { {drawn[k][1], drawn[k][2]} : k \in DOMAIN drawn }
    /\ main_group' = Append(main_group, "lines")
    /\ pc' = StepAfter("lines")
    /\ UNCHANGED <<inputVars, fnVars, dwg, procedural_samples,
                   config, calcVars, scale_factor, star_hip_map,
                   constellation_lines_map, constellation_star_ids,
                   star_glyphs, labels>>

\* the glyph is bent even when the chart is spherized
GlyphCenterBendOnly(cfg, scale, star) ==
    LET p == Scaled(star, scale)
    IN  ToCanvas(tangential_edge_bend(p[1], p[2], cfg.bend_strength))

GlyphCenter(cfg, scale, star) ==
    LET p == Scaled(star, scale) IN ToCanvas(Distort(cfg, p[1], p[2]))

\* a member is drawn whenever its own position is in bounds
StarIsDrawnInBounds(cfg, scale, memberIds, viaLine, star) ==
    ~(cfg.bounds # NoBounds /\ ~_point_in_bounds(cfg, GlyphCenter(cfg, scale, star)))

\* the tests of _draw_stars that decide whether a star gets a glyph
StarIsDrawn(cfg, scale, memberIds, viaLine, star) ==
    IF star.hip \in memberIds
    THEN /\ star.hip \in viaLine
         /\ ~(cfg.bounds # NoBounds /\ ~_point_in_bounds(cfg, GlyphCenter(cfg, scale, star)))
    ELSE ~(cfg.bounds # NoBounds /\ ~_point_in_bounds(cfg, GlyphCenter(cfg, scale, star)))

GlyphOf(cfg, scale, memberIds, star) ==
    [hip |-> star.hip,
     center |-> GlyphCenter(cfg, scale, star),
     kind |-> IF star.hip \in memberIds THEN "main" ELSE "bg"]

_draw_stars ==
    /\ pc = "stars"
    /\ LET kept == SelectSeq(visible_stars,
                       LAMBDA s : StarIsDrawn(config, scale_factor, constellation_star_ids,
                                              constellation_visible_star_ids, s))
       IN  star_glyphs' =
               [k \in DOMAIN kept |-> GlyphOf(config, scale_factor, constellation_star_ids, kept[k])]
    /\ main_group' = Append(main_group, "stars")
    /\ pc' = StepAfter("stars")
    /\ UNCHANGED <<inputVars, fnVars, dwg, procedural_samples,
                   config, calcVars, scale_factor, star_hip_map,
                   constellation_lines_map, constellation_star_ids,
                   constellation_visible_star_ids, polylines, labels>>

LineIds(lines) == UNION { {l[1], l[2]} : l \in Range(lines) }

\* (x * scale) * radius + center: the undistorted canvas position
LabelCanvasPos(star, scale) == ToCanvas(Scaled(star, scale))

\* dist_sq <= radius_squared, both sides divided by radius ** 2
InsideCircle(star, scale) ==
    LET p == Scaled(star, scale) IN p[1] * p[1] + p[2] * p[2] <= ONE * ONE

\* every star of the map inside the circle counts
CountsForLabelAnyStar(map, scale, viaLine, hip_id) ==
    hip_id \in DOMAIN map /\ InsideCircle(map[hip_id], scale)

CountsForLabel(map, scale, viaLine, hip_id) ==
    /\ hip_id \in DOMAIN map
    /\ InsideCircle(map[hip_id], scale)
    /\ hip_id \in viaLine

\* the distinct canvas positions the centroid is taken over
unique_positions(map, scale, viaLine, lines) ==
    { LabelCanvasPos(map[h], scale) :
        h \in { id \in LineIds(lines) : CountsForLabel(map, scale, viaLine, id) } }

RECURSIVE SumOf(_, _)
SumOf(S, k) ==
    IF S = {} THEN 0
    ELSE LET p == CHOOSE q \in S : TRUE IN p[k] + SumOf(S \ {p}, k)

\* the anchor is (sum_x / n, sum_y / n)
LabelOf(name, positions) ==
    [name |-> name, sum_x |-> SumOf(positions, 1), sum_y |-> SumOf(positions, 2),
     n |-> Cardinality(positions)]

_draw_labels ==
    /\ pc = "labels"
    /\ IF ~config.show_labels
       THEN labels' = <<>>
       ELSE LET named == SelectSeq(constellation_lines_map,
                             LAMBDA c : /\ c.lines # <<>>
                                        /\ unique_positions(star_hip_map, scale_factor,
                                               constellation_visible_star_ids, c.lines) # {})
            IN  labels' =
                    [k \in DOMAIN named |->
                        LabelOf(named[k].name,
                                unique_positions(star_hip_map, scale_factor,
                                    constellation_visible_star_ids, named[k].lines))]
    /\ main_group' = IF config.show_labels THEN Append(main_group, "labels") ELSE main_group
    /\ pc' = StepAfter("labels")
    /\ UNCHANGED <<inputVars, fnVars, dwg, procedural_samples,
                   config, calcVars, scale_factor, star_hip_map,
                   constellation_lines_map, constellation_star_ids,
                   constellation_visible_star_ids, polylines, star_glyphs>>

\* sqrt(random.random()): 0 and the largest value below 1
RandomRoots == {0, ONE - 1}

\* (cos, sin) of random.random() * tau: east, north and west
RandomDirections == { <<ONE, 0>>, <<0, ONE>>, <<0 - ONE, 0>> }

\* the whole unit disc whatever the zoom
VisibleRUnzoomed(scale) == ONE

\* 1 / scale_factor
visible_R(scale) == RDiv(ONE * ONE, scale)

\* config.bounds or (0, 0, width_px, height_px)
ExportArea(cfg) ==
    IF cfg.bounds = NoBounds THEN <<0, 0, width_px, height_px>> ELSE cfg.bounds

\* no filter at all
KeepEverything(cfg, p) == TRUE

\* bx1 <= cx <= bx2 and by1 <= cy <= by2
InExportArea(cfg, p) ==
    LET b == ExportArea(cfg)
    IN  /\ b[1] * ONE <= p[1] /\ p[1] <= b[3] * ONE
        /\ b[2] * ONE <= p[2] /\ p[2] <= b[4] * ONE

\* one iteration of the scatter loop, for the two random draws it makes
ProceduralSample(cfg, scale, root, dir) ==
    LET r == RDiv(visible_R(scale) * root, ONE)
        u == RDiv(r * dir[1], ONE)
        v == RDiv(r * dir[2], ONE)
        b == tangential_edge_bend(u, v, RDiv(cfg.bend_strength * 25, 100))
        c == ToCanvas(b)
    IN  [u |-> u, v |-> v, center |-> c, kept |-> InExportArea(cfg, c)]

\* the children of the scatter group
procedural_group == SelectSeq(procedural_samples, LAMBDA smp : smp.kept)

_draw_procedural_bg_stars ==
    /\ pc = "procedural"
    /\ IF config.procedural_bg_stars /\ Len(procedural_samples) < config.num_procedural_stars
       THEN /\ \E root \in RandomRoots, dir \in RandomDirections :
                   procedural_samples' =
                       Append(procedural_samples, ProceduralSample(config, scale_factor, root, dir))
            /\ UNCHANGED <<pc, main_group>>
       ELSE /\ main_group' = IF config.procedural_bg_stars
                             THEN Append(main_group, "procedural") ELSE main_group
            /\ pc' = StepAfter("procedural")
            /\ UNCHANGED procedural_samples
    /\ UNCHANGED <<inputVars, fnVars, dwg, config, calcVars, chartVars>>

\* the border circle, added to the drawing after the main group
render_border ==
    /\ pc = "border"
    /\ dwg' = IF config.circular_mask THEN Append(dwg, "border") ELSE dwg
    /\ pc' = StepAfter("border")
    /\ UNCHANGED <<inputVars, fnVars, main_group, procedural_samples, config, calcVars, chartVars>>

(***************************************************************************)
(* Direct calls of the two distortion functions.                           *)
(***************************************************************************)
call_tangential_edge_bend ==
    /\ pc = "call"
    /\ call.fn = "tangential_edge_bend"
    /\ result' = tangential_edge_bend(call.x, call.y, call.strength)
    /\ pc' = "returned"
    /\ UNCHANGED <<inputVars, call, sceneVars, config, calcVars, chartVars>>

call_simulate_globe_projection ==
    /\ pc = "call"
    /\ call.fn = "simulate_globe_projection"
    /\ result' = simulate_globe_projection(call.x, call.y, call.strength)
    /\ pc' = "returned"
    /\ UNCHANGED <<inputVars, call, sceneVars, config, calcVars, chartVars>>

(***************************************************************************)
(* Inputs.  Coordinates are in fixed-point units (num_segments = 0.01).    *)
(***************************************************************************)
Row(hip, alt, pos, mag) == [hip |-> hip, alt |-> alt, x |-> pos[1], y |-> pos[2], mag |-> mag]

\* a star on the horizon: altitude 0 is not "above"
HorizonRows(hip) == { Row(hip, 0, <<0, 0>>, 1) }

\* (0,0); 0.03 to its right; 0.02 to its right; 0.03 above it
CalcPositions ==
    { <<0, 0>>, <<3 * num_segments, 0>>, <<2 * num_segments, 0>>, <<0, 3 * num_segments>> }

CalcMagnitudes == {1, 2}

\* every position at every magnitude, but the position above only at the brighter one
CalcRows(hip) ==
    HorizonRows(hip)
    \cup { r \in { Row(hip, 30, p, m) : p \in CalcPositions, m \in CalcMagnitudes } :
             r.y = 0 \/ r.mag = 1 }

\* the zenith, 0.96 to the right, 0.6 up
ChartPositions == { <<0, 0>>, <<96 * num_segments, 0>>, <<0, 60 * num_segments>> }

ChartRows(hip) == { Row(hip, 30, p, 1) : p \in ChartPositions }

SceneRows(hip) == HorizonRows(hip) \cup ChartRows(hip)

\* a catalog gives row h the id h and one of the given rows' altitude,
\* position and magnitude
Catalogs(rows) ==
    { [h \in 1..NumStars |-> Row(h, f[h].alt, <<f[h].x, f[h].y>>, f[h].mag)] :
        f \in [1..NumStars -> rows] }

CalcCatalogs == Catalogs(CalcRows(1))

ChartCatalogs == Catalogs(ChartRows(1))

SceneCatalogs == Catalogs(SceneRows(1))

\* an id no catalog row carries
MissingHip == NumStars + 1

Constellation(name, lines) == [name |-> name, lines |-> lines]

CalcConstellations ==
    { <<>>,
      << Constellation("Ori", << <<1, 2>> >>) >>,
      << Constellation("Ori", << <<1, 2>>, <<2, 3>> >>) >>,
      << Constellation("Ori", << <<1, MissingHip>> >>),
         Constellation("Lyr", << <<MissingHip, 1>> >>) >> }

ChartConstellations ==
    { << Constellation("Ori", << <<1, 2>> >>) >>,
      << Constellation("Ori", << <<1, 2>> >>),
         Constellation("Lyr", << <<2, 3>> >>) >>,
      << Constellation("Ori", << <<1, 3>> >>),
         Constellation("Lyr", << <<3, MissingHip>>, <<2, 3>> >>) >>,
      << Constellation("Ori", << <<1, 2>> >>),
         Constellation("Cyg", << >>),
         Constellation("Ori", << <<3, MissingHip>> >>) >> }

\* Config() with the fields the engine reads; strengths in units of 1/ONE
Config(fov, sphere, show, bounds) ==
    [fov_radius_deg |-> fov, sphere_effect |-> sphere,
     sphere_distortion_strength |-> (6 * ONE) \div 10,
     bend_strength |-> (2 * ONE) \div 100,
     show_labels |-> show, bounds |-> bounds,
     procedural_bg_stars |-> FALSE, num_procedural_stars |-> 300,
     circular_mask |-> FALSE]

RightCropped == <<0, 0, 950, 1000>>

OffCanvas == <<2000, 2000, 3000, 3000>>

CalcConfigs == { Config(90, FALSE, TRUE, NoBounds) }

ChartConfigs ==
    { Config(fov, sphere, show, b) :
        fov \in {90, 45}, sphere \in BOOLEAN, show \in BOOLEAN,
        b \in {NoBounds, RightCropped, OffCanvas} }

\* no StarForge object, the default log level
NoForge ==
    /\ _location_query = ""
    /\ _verbose = FALSE
    /\ _latitude = <<>>
    /\ _longitude = <<>>
    /\ _place_name = <<>>
    /\ _location_resolved = FALSE
    /\ _datetime = <<>>
    /\ _astronomy_loaded = FALSE
    /\ _visible_stars = <<>>
    /\ _calculated = FALSE
    /\ _config = <<>>
    /\ _magnitude_limit = 6
    /\ _show_labels = TRUE
    /\ _level = 1
    /\ clock = 0
    /\ last_call = <<>>

NothingComputed ==
    /\ constellation_stars_to_render = <<>>
    /\ background_stars_to_filter = <<>>
    /\ background_star_candidates = <<>>
    /\ final_background_stars = <<>>
    /\ occupied_positions = <<>>
    /\ cand_i = 0
    /\ visible_stars = <<>>
    /\ scale_factor = 0
    /\ star_hip_map = <<>>
    /\ constellation_lines_map = <<>>
    /\ constellation_star_ids = {}
    /\ constellation_visible_star_ids = {}
    /\ polylines = <<>>
    /\ star_glyphs = <<>>
    /\ labels = <<>>
    /\ main_group = <<>>
    /\ dwg = <<>>
    /\ procedural_samples = <<>>

InitState ==
    /\ NoForge
    /\ _fov_radius_deg = config.fov_radius_deg
    /\ pc = "classify"
    /\ call = <<>>
    /\ result = <<>>
    /\ NothingComputed

\* catalogs that exercise the magnitude filter and the declutter
Init ==
    /\ stars_df \in CalcCatalogs
    /\ constellations \in CalcConstellations
    /\ magnitude_limit \in {1, 2}
    /\ config \in CalcConfigs
    /\ InitState

\* the grid the called points are taken from: multiples of 0.1 up to 1.1
GridSteps == 11

GridCoords == { k * (ONE \div 10) : k \in (0 - GridSteps)..GridSteps }

\* 0, the default bend of a chart, the default of the function, 0.1
BendStrengths == {0, (2 * ONE) \div 100, (5 * ONE) \div 100, ONE \div 10}

\* 0, the default blend, 1
GlobeStrengths == {0, (6 * ONE) \div 10, ONE}

DistortCalls ==
    { [fn |-> "tangential_edge_bend", x |-> x, y |-> y, strength |-> st] :
        x \in GridCoords, y \in GridCoords, st \in BendStrengths }
    \cup
    { [fn |-> "simulate_globe_projection", x |-> x, y |-> y, strength |-> st] :
        x \in GridCoords, y \in GridCoords, st \in GlobeStrengths }

InitDistort ==
    /\ NoForge
    /\ stars_df = <<>>
    /\ constellations = <<>>
    /\ magnitude_limit = 1
    /\ config \in CalcConfigs
    /\ _fov_radius_deg = config.fov_radius_deg
    /\ pc = "call"
    /\ call \in DistortCalls
    /\ result = <<>>
    /\ NothingComputed

\* a scene: the zoomed-out, plain, zoomed-in and rejected fields of view
SceneFovs == {180, 90, 45, 0, 0 - 45}

RightOfCanvas == <<1001, 0, 1500, 1000>>

WithScatter(cfg, n) == [cfg EXCEPT !.procedural_bg_stars = TRUE, !.num_procedural_stars = n]

WithMask(cfg) == [cfg EXCEPT !.circular_mask = TRUE]

WithBend(cfg, strength) == [cfg EXCEPT !.bend_strength = strength]

SceneConfigs ==
    { WithMask(WithScatter(Config(fov, FALSE, TRUE, b), 2)) :
        fov \in SceneFovs, b \in {NoBounds, RightCropped, RightOfCanvas} }
    \cup
    { Config(fov, TRUE, show, b) :
        fov \in {90, 45}, show \in BOOLEAN, b \in {NoBounds, RightOfCanvas} }
    \cup
    { WithBend(Config(90, FALSE, TRUE, NoBounds), 0),
      WithBend(Config(90, FALSE, TRUE, RightCropped), 0),
      WithScatter(WithBend(Config(90, FALSE, FALSE, NoBounds), 0), 1) }

SceneConstellations ==
    { << Constellation("Ori", << <<1, 2>> >>) >>,
      << Constellation("Ori", << <<1, 2>>, <<2, MissingHip>> >>),
         Constellation("Lyr", << <<3, MissingHip>> >>) >> }

InitScene ==
    /\ stars_df \in SceneCatalogs
    /\ constellations \in SceneConstellations
    /\ magnitude_limit \in {1}
    /\ config \in SceneConfigs
    /\ InitState

\* catalogs and configurations that exercise the chart
InitChart ==
    /\ stars_df \in ChartCatalogs
    /\ constellations \in ChartConstellations
    /\ magnitude_limit \in {1}
    /\ config \in ChartConfigs
    /\ InitState

Next ==
    \/ ClassifyStars
    \/ FilterAndSort
    \/ DeclutterStep
    \/ ReturnVisible
    \/ NewChart
    \/ _draw_constellations
    \/ _draw_stars
    \/ _draw_labels
    \/ _draw_procedural_bg_stars
    \/ render_border

Spec == Init /\ [][Next]_vars

SpecChart == InitChart /\ [][Next]_vars

SpecScene == InitScene /\ [][Next]_vars

NextDistort == call_tangential_edge_bend \/ call_simulate_globe_projection

SpecDistort == InitDistort /\ [][NextDistort]_vars

(***************************************************************************)
(* Vocabulary of the properties, written from the inputs.                  *)
(***************************************************************************)
Returned == pc \in {"chart", "lines", "stars", "labels", "procedural", "border", "done"}

LinesDrawn == pc \in {"stars", "labels", "procedural", "border", "done"}

StarsDrawn == pc \in {"labels", "procedural", "border", "done"}

Rendered == pc = "done"

\* ids that are the start or the end of some line of some constellation
HipUniverse == 1..MissingHip

MemberIdSet ==
    { h \in HipUniverse :
        \E c \in Range(constellations) : \E l \in Range(c.lines) : h = l[1] \/ h = l[2] }

AboveRowIndexes == { i \in DOMAIN stars_df : stars_df[i].alt > 0 }

VisibleHips == { visible_stars[k].hip : k \in DOMAIN visible_stars }

SqDist(a, b) == (a.x - b.x) * (a.x - b.x) + (a.y - b.y) * (a.y - b.y)

\* above-horizon non-members within the magnitude limit
\* a plane coordinate multiplied by the zoom 90 / fov of the chart
Zoomed(c) == RDiv(c * scale_factor, ONE)

CandidateIndexes ==
    { i \in AboveRowIndexes :
        stars_df[i].hip \notin MemberIdSet /\ stars_df[i].mag <= magnitude_limit }

(***************************************************************************)
(* C3 as stated: every accepted background star lies at a squared distance *)
(* strictly greater than 0.03^2 from every position that was occupied when *)
(* the declutter loop examined it (the constellation stars and the         *)
(* background stars accepted before it).                                   *)
(***************************************************************************)
C3_AcceptedStrictlyBeyond ==
    \A k \in DOMAIN final_background_stars :
        \A j \in 1..(Len(constellation_stars_to_render) + k - 1) :
            j \in DOMAIN occupied_positions =>
                DistSq(final_background_stars[k].x, final_background_stars[k].y,
                       occupied_positions[j]) > min_dist_sq

(***************************************************************************)
(* C3 amended: every accepted background star lies at a squared distance   *)
(* of at least 0.03^2 from every position occupied before it; a candidate  *)
(* at exactly 0.03^2 is accepted.                                          *)
(***************************************************************************)
C3_AcceptedAtLeast ==
    \A k \in DOMAIN final_background_stars :
        /\ Len(constellation_stars_to_render) + k \in DOMAIN occupied_positions
        /\ \A j \in 1..(Len(constellation_stars_to_render) + k - 1) :
               DistSq(final_background_stars[k].x, final_background_stars[k].y,
                      occupied_positions[j]) >= min_dist_sq

\* a background star was accepted at exactly 0.03^2 from a constellation star
C3_Witness ==
    /\ pc = "declutter"
    /\ \E k \in DOMAIN final_background_stars :
        \E j \in DOMAIN constellation_stars_to_render :
            SqDist(final_background_stars[k], constellation_stars_to_render[j]) = min_dist_sq

(***************************************************************************)
(* C4: two distinct background stars of the returned list are at a squared *)
(* distance of at least 0.03^2 from each other.                            *)
(***************************************************************************)
C4_BackgroundSpacing ==
    Returned =>
        \A i, j \in DOMAIN visible_stars :
            ( /\ i # j
              /\ visible_stars[i].hip \notin MemberIdSet
              /\ visible_stars[j].hip \notin MemberIdSet )
            => SqDist(visible_stars[i], visible_stars[j]) >= min_dist_sq

\* two background stars were returned, a third candidate between them was not
C4_Witness ==
    /\ Returned
    /\ \E i, j \in DOMAIN visible_stars :
        /\ i # j
        /\ visible_stars[i].hip \notin MemberIdSet
        /\ visible_stars[j].hip \notin MemberIdSet
    /\ \E i \in CandidateIndexes : stars_df[i].hip \notin VisibleHips

(***************************************************************************)
(* C5: every above-horizon constellation member is in the returned list,   *)
(* and no returned background star is closer than 0.03^2 (squared) to an   *)
(* above-horizon constellation member, whatever their magnitudes.          *)
(***************************************************************************)
C5_ConstellationStarsWin ==
    Returned =>
        \A i \in AboveRowIndexes :
            stars_df[i].hip \in MemberIdSet =>
                /\ stars_df[i].hip \in VisibleHips
                /\ \A k \in DOMAIN visible_stars :
                       visible_stars[k].hip \notin MemberIdSet =>
                           SqDist(stars_df[i], visible_stars[k]) >= min_dist_sq

\* a brighter background candidate lost its place to a fainter member
C5_Witness ==
    /\ Returned
    /\ \E i \in CandidateIndexes : \E m \in AboveRowIndexes :
        /\ stars_df[m].hip \in MemberIdSet
        /\ stars_df[i].mag < stars_df[m].mag
        /\ SqDist(stars_df[i], stars_df[m]) < min_dist_sq
        /\ stars_df[i].hip \notin VisibleHips
        /\ stars_df[m].hip \in VisibleHips

(***************************************************************************)
(* C6: the returned list holds the constellation members first and then    *)
(* the background stars in non-decreasing magnitude, and the glyphs of a   *)
(* render follow the order of the returned list.                           *)
(***************************************************************************)
PlaceInVisible(h) == CHOOSE k \in DOMAIN visible_stars : visible_stars[k].hip = h

C6_OutputOrder ==
    /\ Returned =>
        \A i, j \in DOMAIN visible_stars :
            i < j =>
                /\ visible_stars[j].hip \in MemberIdSet => visible_stars[i].hip \in MemberIdSet
                /\ ( visible_stars[i].hip \notin MemberIdSet
                     /\ visible_stars[j].hip \notin MemberIdSet )
                   => visible_stars[i].mag <= visible_stars[j].mag
    /\ StarsDrawn =>
        /\ \A a \in DOMAIN star_glyphs : star_glyphs[a].hip \in VisibleHips
        /\ \A a, b \in DOMAIN star_glyphs :
               a < b => PlaceInVisible(star_glyphs[a].hip) < PlaceInVisible(star_glyphs[b].hip)

\* a member, then two background stars that the catalog lists faintest first
C6_Witness ==
    /\ Rendered
    /\ Len(visible_stars) = 3
    /\ visible_stars[1].hip \in MemberIdSet
    /\ visible_stars[2].hip \notin MemberIdSet
    /\ visible_stars[2].mag < visible_stars[3].mag
    /\ visible_stars[2].hip > visible_stars[3].hip
    /\ Len(star_glyphs) >= 2

(***************************************************************************)
(* C7: every star above the horizon whose id is the start or the end of a  *)
(* constellation line is in the returned list, with its own data, for      *)
(* every magnitude and magnitude limit and for every other endpoint.       *)
(***************************************************************************)
C7_MembersKept ==
    Returned =>
        \A i \in AboveRowIndexes :
            stars_df[i].hip \in MemberIdSet =>
                \E k \in DOMAIN visible_stars :
                    visible_stars[k] = [x |-> stars_df[i].x, y |-> stars_df[i].y,
                                        hip |-> stars_df[i].hip, mag |-> stars_df[i].mag]

\* a member fainter than the limit is returned although its partner is not up
C7_Witness ==
    /\ Returned
    /\ \E c \in Range(constellations) : \E l \in Range(c.lines) :
        /\ l[1] \in DOMAIN stars_df /\ l[2] \in DOMAIN stars_df
        /\ stars_df[l[1]].alt <= 0
        /\ stars_df[l[2]].alt > 0
        /\ stars_df[l[2]].mag > magnitude_limit
        /\ l[2] \in VisibleHips

(***************************************************************************)
(* C8: every background star of the returned list has magnitude at most    *)
(* magnitude_limit; when the limit is below every catalog magnitude the    *)
(* list is exactly the above-horizon constellation members.                *)
(***************************************************************************)
C8_MagnitudeLimit ==
    Returned =>
        /\ \A k \in DOMAIN visible_stars :
               visible_stars[k].hip \notin MemberIdSet =>
                   visible_stars[k].mag <= magnitude_limit
        /\ (\A i \in DOMAIN stars_df : stars_df[i].mag > magnitude_limit) =>
               VisibleHips = { stars_df[i].hip : i \in
                                 { a \in AboveRowIndexes : stars_df[a].hip \in MemberIdSet } }

\* the limit is below every magnitude: the background star is gone, a member stays
C8_Witness ==
    /\ Returned
    /\ \A i \in DOMAIN stars_df : stars_df[i].mag > magnitude_limit
    /\ \E i \in AboveRowIndexes : stars_df[i].hip \notin MemberIdSet
    /\ visible_stars # <<>>

(***************************************************************************)
(* C9: no star with altitude <= 0 is in the returned list, and the list is *)
(* no longer than the number of catalog stars with altitude > 0.           *)
(***************************************************************************)
C9_AboveHorizonOnly ==
    Returned =>
        /\ \A k \in DOMAIN visible_stars :
               \E i \in DOMAIN stars_df :
                   stars_df[i].hip = visible_stars[k].hip /\ stars_df[i].alt > 0
        /\ Len(visible_stars) <= Cardinality(AboveRowIndexes)

\* a member and a bright background star are on the horizon; one star is returned
C9_Witness ==
    /\ Returned
    /\ \E i, j \in DOMAIN stars_df :
        /\ stars_df[i].alt <= 0 /\ stars_df[i].hip \in MemberIdSet
        /\ stars_df[j].alt <= 0 /\ stars_df[j].hip \notin MemberIdSet
        /\ stars_df[j].mag <= magnitude_limit
    /\ Len(visible_stars) = 1

(***************************************************************************)
(* Vocabulary of the chart properties.                                     *)
(***************************************************************************)
\* sample i (0..num_segments) of the segment between the stars a and b
SampleOnCanvas(a, b, i) ==
    LET u1 == Zoomed(star_hip_map[a].x)
        v1 == Zoomed(0 - star_hip_map[a].y)
        u2 == Zoomed(star_hip_map[b].x)
        v2 == Zoomed(0 - star_hip_map[b].y)
    IN  ToCanvas(Distort(config, u1 + ((u2 - u1) * i) \div 12, v1 + ((v2 - v1) * i) \div 12))

InsideBounds(p) ==
    \/ config.bounds = NoBounds
    \/ /\ config.bounds[1] * ONE <= p[1] /\ p[1] <= config.bounds[3] * ONE
       /\ config.bounds[2] * ONE <= p[2] /\ p[2] <= config.bounds[4] * ONE

LinesOfChart == UNION { Range(c.lines) : c \in Range(constellations) }

Mapped(l) == l[1] \in DOMAIN star_hip_map /\ l[2] \in DOMAIN star_hip_map

HasPolyline(l) ==
    \E q \in DOMAIN polylines :
        polylines[q].start_hip = l[1] /\ polylines[q].end_hip = l[2]

OutsideSamples(l) == { i \in 0..12 : ~InsideBounds(SampleOnCanvas(l[1], l[2], i)) }

HasGlyph(h) == \E g \in DOMAIN star_glyphs : star_glyphs[g].hip = h

HasLabel(name) == \E k \in DOMAIN labels : labels[k].name = name

\* the position of a star's glyph, whether or not the glyph is drawn
OwnCanvasPosition(star) ==
    ToCanvas(Distort(config, Zoomed(star.x), Zoomed(0 - star.y)))

(***************************************************************************)
(* C1: a line with both endpoints in the star map has a polyline iff all   *)
(* 13 samples are inside the bounds; every polyline has exactly the 13     *)
(* samples of its line, never a part of them.                              *)
(***************************************************************************)
C1_AllOrNothing ==
    LinesDrawn =>
        /\ \A l \in LinesOfChart :
               /\ Mapped(l) => (HasPolyline(l) <=> OutsideSamples(l) = {})
               /\ ~Mapped(l) => ~HasPolyline(l)
        /\ \A q \in DOMAIN polylines :
               /\ Len(polylines[q].points) = 13
               /\ \A i \in 0..12 :
                      polylines[q].points[i + 1] =
                          SampleOnCanvas(polylines[q].start_hip, polylines[q].end_hip, i)

\* under bounds, one line is rejected for its last sample alone, another is drawn
C1_Witness ==
    /\ LinesDrawn
    /\ config.bounds # NoBounds
    /\ \E l \in LinesOfChart :
        Mapped(l) /\ OutsideSamples(l) = {12} /\ ~HasPolyline(l)
    /\ polylines # <<>>

(***************************************************************************)
(* C2: a constellation member of the visible list has a glyph iff it is    *)
(* an endpoint of a polyline of this render.                               *)
(***************************************************************************)
C2_GlyphIffOnAcceptedLine ==
    StarsDrawn =>
        \A k \in DOMAIN visible_stars :
            visible_stars[k].hip \in MemberIdSet =>
                ( HasGlyph(visible_stars[k].hip)
                  <=> \E q \in DOMAIN polylines :
                          visible_stars[k].hip \in
                              {polylines[q].start_hip, polylines[q].end_hip} )

\* a member inside the bounds has no glyph: its only line was rejected;
\* another member, on an accepted line, has one
C2_Witness ==
    /\ StarsDrawn
    /\ config.bounds # NoBounds
    /\ \E k \in DOMAIN visible_stars :
        /\ visible_stars[k].hip \in MemberIdSet
        /\ InsideBounds(OwnCanvasPosition(visible_stars[k]))
        /\ ~HasGlyph(visible_stars[k].hip)
        /\ \E l \in LinesOfChart : Mapped(l) /\ visible_stars[k].hip \in {l[1], l[2]}
    /\ \E k \in DOMAIN visible_stars :
        visible_stars[k].hip \in MemberIdSet /\ HasGlyph(visible_stars[k].hip)

(***************************************************************************)
(* C10 as stated: with labels enabled, a constellation has a label iff one *)
(* of its member stars is in the star map and in the visible-via-line set. *)
(***************************************************************************)
C10_LabelIffVisibleMember ==
    (Rendered /\ config.show_labels) =>
        \A c \in Range(constellations) :
            HasLabel(c.name)
            <=> \E l \in Range(c.lines) : \E h \in {l[1], l[2]} :
                    h \in DOMAIN star_hip_map /\ h \in constellation_visible_star_ids

(***************************************************************************)
(* C10 amended: with labels enabled, a constellation name has a label iff  *)
(* one of the stars of the lines kept for that name (the last list given   *)
(* for it) is in the star map, is in the visible-via-line set, and has its *)
(* scaled, undistorted position within the chart circle.                   *)
(***************************************************************************)
C10_LabelIffVisibleMemberInCircle ==
    (Rendered /\ config.show_labels) =>
        /\ \A e \in Range(constellation_lines_map) :
               HasLabel(e.name)
               <=> \E l \in Range(e.lines) : \E h \in {l[1], l[2]} :
                       /\ h \in DOMAIN star_hip_map
                       /\ h \in constellation_visible_star_ids
                       /\ Zoomed(star_hip_map[h].x) * Zoomed(star_hip_map[h].x)
                          + Zoomed(star_hip_map[h].y) * Zoomed(star_hip_map[h].y)
                          <= ONE * ONE
        /\ \A k \in DOMAIN labels :
               \E e \in Range(constellation_lines_map) : e.name = labels[k].name

\* zoomed in: one constellation is labelled, another has both stars on an
\* accepted line but outside the circle and gets no label
C10_Witness ==
    /\ Rendered
    /\ config.show_labels
    /\ labels # <<>>
    /\ \E e \in Range(constellation_lines_map) :
        /\ ~HasLabel(e.name)
        /\ \E l \in Range(e.lines) :
            l[1] \in constellation_visible_star_ids /\ l[2] \in constellation_visible_star_ids

(***************************************************************************)
(* Vocabulary of the label anchor.                                         *)
(***************************************************************************)
LabelsDrawn == pc \in {"procedural", "border", "done"}

\* the stars the label of a map entry is taken over
Collected(e) ==
    { h \in UNION { {l[1], l[2]} : l \in Range(e.lines) } :
        /\ h \in DOMAIN star_hip_map
        /\ h \in constellation_visible_star_ids
        /\ Zoomed(star_hip_map[h].x) * Zoomed(star_hip_map[h].x)
           + Zoomed(star_hip_map[h].y) * Zoomed(star_hip_map[h].y) <= ONE * ONE }

RECURSIVE Total(_, _)
Total(S, k) ==
    IF S = {} THEN 0
    ELSE LET p == CHOOSE q \in S : TRUE IN p[k] + Total(S \ {p}, k)

\* the label's anchor (sum / n) is the arithmetic mean of the points of D
AnchorIsMeanOf(label, D) ==
    /\ D # {}
    /\ label.sum_x * Cardinality(D) = Total(D, 1) * label.n
    /\ label.sum_y * Cardinality(D) = Total(D, 2) * label.n

(***************************************************************************)
(* C11 as stated: the anchor of every label is the arithmetic mean of the  *)
(* distinct canvas positions of the stars collected for it, each position  *)
(* being the scaled and distorted one at which the star's glyph is drawn;  *)
(* stars at one position count once.                                       *)
(***************************************************************************)
C11_AnchorIsGlyphCentroid ==
    LabelsDrawn =>
        \A k \in DOMAIN labels :
            \E e \in Range(constellation_lines_map) :
                /\ e.name = labels[k].name
                /\ AnchorIsMeanOf(labels[k],
                       { OwnCanvasPosition(star_hip_map[h]) : h \in Collected(e) })

(***************************************************************************)
(* Vocabulary of the off-canvas rectangle.                                 *)
(***************************************************************************)
\* the bounds rectangle has no point in common with [0, width] x [0, height]
BoundsOutsideCanvas ==
    /\ config.bounds # NoBounds
    /\ \/ config.bounds[3] < 0
       \/ config.bounds[1] > width_px
       \/ config.bounds[4] < 0
       \/ config.bounds[2] > height_px

KeptSamples == { k \in DOMAIN procedural_samples : procedural_samples[k].kept }

NothingDrawn ==
    /\ polylines = <<>>
    /\ star_glyphs = <<>>
    /\ KeptSamples = {}

BendReturned == pc = "returned" /\ call.fn = "tangential_edge_bend"

GlobeReturned == pc = "returned" /\ call.fn = "simulate_globe_projection"

Argument == <<call.x, call.y>>

ArgRadiusSq == call.x * call.x + call.y * call.y

ArgRadius == Isqrt(ArgRadiusSq)

\* what the call added to its argument
Moved == <<result[1] - call.x, result[2] - call.y>>

Abs(n) == IF n < 0 THEN 0 - n ELSE n

\* a . b and the z component of a x b
Dot(a, b) == a[1] * b[1] + a[2] * b[2]

Cross(a, b) == a[1] * b[2] - a[2] * b[1]

\* rounding of the fixed-point grid: two units, 2 / ONE of the unit radius
Tolerance == ONE \div 600

\* strength * t^2 with t = clamp((r - edge_start) / (1 - edge_start), 0, 1)
ExpectedPush ==
    LET raw == ((ArgRadius - edge_start) * ONE) \div (ONE - edge_start)
        t == IF raw < 0 THEN 0 ELSE IF raw > ONE THEN ONE ELSE raw
    IN  RDiv(call.strength * t * t, ONE * ONE)

(***************************************************************************)
(* C13: tangential_edge_bend returns its argument unchanged when r is      *)
(* below edge_start (the origin included) and when r equals edge_start,    *)
(* for every strength; from edge_start on it moves the point along the     *)
(* unit tangent (-y, x) / r by strength * t^2, t the clamped edge falloff. *)
(***************************************************************************)
C13_BendOnlyAtEdge ==
    BendReturned =>
        /\ ArgRadiusSq <= edge_start * edge_start => result = Argument
        /\ ArgRadiusSq >= edge_start * edge_start =>
               /\ Abs(Dot(Moved, Argument)) <= Tolerance * ArgRadius
               /\ Abs(Cross(Argument, Moved) - ArgRadius * ExpectedPush)
                      <= Tolerance * ArgRadius

\* a point between edge_start and the unit circle, moved by a part of the strength
C13_Witness ==
    /\ BendReturned
    /\ ArgRadiusSq > edge_start * edge_start
    /\ ArgRadiusSq < ONE * ONE
    /\ ExpectedPush > Tolerance
    /\ ExpectedPush < call.strength
    /\ result # Argument

\* the length of the returned vector
ResultRadius == Isqrt(result[1] * result[1] + result[2] * result[2])

(***************************************************************************)
(* C14: simulate_globe_projection with strength 0 returns its argument,    *)
(* and so it does at the origin for every strength; with strength 1 and    *)
(* 0 < r <= 1 the returned vector has length sin(r * pi / 2) and the       *)
(* direction of the argument (so length 1 at r = 1, and a squared length   *)
(* of one half at r = 1/2).                                                *)
(***************************************************************************)
C14_GlobeBlend ==
    GlobeReturned =>
        /\ call.strength = 0 => result = Argument
        /\ ArgRadiusSq = 0 => result = Argument
        /\ (call.strength = ONE /\ ArgRadiusSq > 0 /\ ArgRadiusSq <= ONE * ONE) =>
               /\ Abs(ResultRadius - SinHalfPi(ArgRadius)) <= Tolerance
               /\ Abs(Cross(Argument, result)) <= Tolerance * ArgRadius
               /\ Dot(Argument, result) > 0
               /\ ArgRadiusSq = ONE * ONE => Abs(ResultRadius - ONE) <= Tolerance
               /\ 4 * ArgRadiusSq = ONE * ONE =>
                      Abs(2 * ResultRadius * ResultRadius - ONE * ONE) <= 4 * Tolerance * ONE

\* full strength off the axes: the point moves outwards along its own radius
C14_Witness ==
    /\ GlobeReturned
    /\ call.strength = ONE
    /\ call.x # 0
    /\ call.y # 0
    /\ ArgRadiusSq < ONE * ONE
    /\ ResultRadius > ArgRadius + Tolerance

(***************************************************************************)
(* Vocabulary of the undistorted chart.                                    *)
(***************************************************************************)
\* full field of view, no bounds, no spherize, zero bend
PlainChart ==
    /\ config.fov_radius_deg = 90
    /\ config.bounds = NoBounds
    /\ ~config.sphere_effect
    /\ config.bend_strength = 0

\* (center_x + x * radius, center_y - y * radius), in 1/ONE pixels
LinearPosition(star) ==
    <<center_x * ONE + star.x * radius, center_y * ONE - star.y * radius>>

GlyphAt(star) ==
    \E g \in DOMAIN star_glyphs :
        star_glyphs[g].hip = star.hip /\ star_glyphs[g].center = LinearPosition(star)

OnMappedLine(h) == \E l \in LinesOfChart : Mapped(l) /\ (h = l[1] \/ h = l[2])

(***************************************************************************)
(* C15 as stated: on a plain chart (fov 90, no bounds, no spherize, bend   *)
(* strength 0) every star of the visible list is drawn, its glyph centred  *)
(* at (center_x + x * radius, center_y - y * radius).                      *)
(***************************************************************************)
C15_EveryVisibleStarDrawnLinear ==
    (StarsDrawn /\ PlainChart) =>
        \A k \in DOMAIN visible_stars : GlyphAt(visible_stars[k])

(***************************************************************************)
(* C15 amended: on a plain chart every background star of the visible list *)
(* and every constellation member that is an endpoint of a line with both  *)
(* endpoints in the visible list is drawn, its glyph centred at            *)
(* (center_x + x * radius, center_y - y * radius), also for r >= 0.9; a    *)
(* member with no such line gets no glyph.                                 *)
(***************************************************************************)
C15_DrawnStarsLinear ==
    (StarsDrawn /\ PlainChart) =>
        \A k \in DOMAIN visible_stars :
            IF visible_stars[k].hip \in MemberIdSet /\ ~OnMappedLine(visible_stars[k].hip)
            THEN ~HasGlyph(visible_stars[k].hip)
            ELSE GlyphAt(visible_stars[k])

\* a drawn star beyond edge_start, and a member whose only partner is missing
C15_Witness ==
    /\ StarsDrawn
    /\ PlainChart
    /\ \E k \in DOMAIN visible_stars :
        /\ visible_stars[k].x * visible_stars[k].x + visible_stars[k].y * visible_stars[k].y
               >= edge_start * edge_start
        /\ GlyphAt(visible_stars[k])
    /\ \E k \in DOMAIN visible_stars :
        visible_stars[k].hip \in MemberIdSet /\ ~HasGlyph(visible_stars[k].hip)

(***************************************************************************)
(* Vocabulary of the single distortion.                                    *)
(***************************************************************************)
\* the one distortion the configuration selects, applied once, on the canvas
Transformed(u, v) ==
    LET p == IF config.sphere_effect
             THEN simulate_globe_projection(u, v, config.sphere_distortion_strength)
             ELSE tangential_edge_bend(u, v, config.bend_strength)
    IN  <<center_x * ONE + p[1] * radius, center_y * ONE + p[2] * radius>>

ZoomedStar(h) == <<Zoomed(star_hip_map[h].x), Zoomed(0 - star_hip_map[h].y)>>

\* sample i of the straight segment between the zoomed stars a and b
StraightSample(a, b, i) ==
    <<ZoomedStar(a)[1] + ((ZoomedStar(b)[1] - ZoomedStar(a)[1]) * i) \div num_segments,
      ZoomedStar(a)[2] + ((ZoomedStar(b)[2] - ZoomedStar(a)[2]) * i) \div num_segments>>

GlyphCentredAt(h, p) ==
    \E g \in DOMAIN star_glyphs : star_glyphs[g].hip = h /\ star_glyphs[g].center = p

(***************************************************************************)
(* C16: every glyph centre and every sampled point of a polyline is the    *)
(* image of the zoomed plane point under exactly one distortion, the       *)
(* spherize blend when sphere_effect is set and the tangential bend        *)
(* otherwise; stars and lines use the same one, so the first and the last  *)
(* sample of every polyline are the glyph centres of its two endpoints.    *)
(***************************************************************************)
C16_OneDistortionForStarsAndLines ==
    StarsDrawn =>
        /\ \A g \in DOMAIN star_glyphs :
               star_glyphs[g].center =
                   Transformed(ZoomedStar(star_glyphs[g].hip)[1], ZoomedStar(star_glyphs[g].hip)[2])
        /\ \A q \in DOMAIN polylines :
               /\ \A i \in 0..num_segments :
                      polylines[q].points[i + 1] =
                          Transformed(
                              StraightSample(polylines[q].start_hip, polylines[q].end_hip, i)[1],
                              StraightSample(polylines[q].start_hip, polylines[q].end_hip, i)[2])
               /\ GlyphCentredAt(polylines[q].start_hip, polylines[q].points[1])
               /\ GlyphCentredAt(polylines[q].end_hip, polylines[q].points[num_segments + 1])

\* spherized: a polyline ends on a glyph that the blend moved off its plain place
C16_Witness ==
    /\ StarsDrawn
    /\ config.sphere_effect
    /\ \E q \in DOMAIN polylines :
        /\ polylines[q].start_hip # polylines[q].end_hip
        /\ GlyphCentredAt(polylines[q].end_hip, polylines[q].points[num_segments + 1])
        /\ polylines[q].points[num_segments + 1] #
               <<center_x * ONE + ZoomedStar(polylines[q].end_hip)[1] * radius,
                 center_y * ONE + ZoomedStar(polylines[q].end_hip)[2] * radius>>

(***************************************************************************)
(* Vocabulary of the scatter.                                              *)
(***************************************************************************)
ScatterDone == pc \in {"border", "done"}

ScatterOn == config.procedural_bg_stars

\* p, in 1/ONE pixels, is inside the rectangle b given in pixels
InRectangle(p, b) ==
    /\ b[1] * ONE <= p[1] /\ p[1] <= b[3] * ONE
    /\ b[2] * ONE <= p[2] /\ p[2] <= b[4] * ONE

\* the radius of a sampled point before the bend
SampleRadius(smp) == Isqrt(smp.u * smp.u + smp.v * smp.v)

(***************************************************************************)
(* C17: the scatter loop runs exactly num_procedural_stars times and never *)
(* retries a rejected point, so at most that many procedural stars are     *)
(* emitted (fewer when some are rejected); every emitted one is inside     *)
(* config.bounds when bounds are set; and every sampled point, before the  *)
(* bend, has a radius of at most 1 / scale_factor.                         *)
(***************************************************************************)
C17_ScatterCountAndPlace ==
    /\ Len(procedural_samples) <= config.num_procedural_stars
    /\ (ScatterDone /\ ScatterOn) => Len(procedural_samples) = config.num_procedural_stars
    /\ (ScatterDone /\ ~ScatterOn) => procedural_samples = <<>>
    /\ Cardinality(KeptSamples) <= Len(procedural_samples)
    /\ \A k \in DOMAIN procedural_samples :
           /\ (procedural_samples[k].kept /\ config.bounds # NoBounds) =>
                  InRectangle(procedural_samples[k].center, config.bounds)
           /\ scale_factor * SampleRadius(procedural_samples[k]) <= ONE * ONE

\* zoomed out, under bounds: two iterations, one star emitted, the other sampled
\* beyond the unit circle and rejected
C17_Witness ==
    /\ ScatterDone
    /\ ScatterOn
    /\ config.bounds # NoBounds
    /\ scale_factor < ONE
    /\ Len(procedural_samples) = 2
    /\ Cardinality(KeptSamples) = 1
    /\ \E k \in DOMAIN procedural_samples :
        ~procedural_samples[k].kept /\ SampleRadius(procedural_samples[k]) > ONE

(***************************************************************************)
(* C18 as stated: a procedural point is kept iff the bounds test of the    *)
(* real stars accepts its canvas position: inside config.bounds when       *)
(* bounds are set, always when they are not, whatever the field of view.   *)
(***************************************************************************)
C18_ScatterUsesStarBoundsTest ==
    \A k \in DOMAIN procedural_samples :
        procedural_samples[k].kept <=> InsideBounds(procedural_samples[k].center)

(***************************************************************************)
(* C18 amended: a procedural point is kept iff its canvas position is      *)
(* inside config.bounds when bounds are set, and inside the canvas         *)
(* rectangle (0, 0, width, height) when they are not; without bounds no    *)
(* point is rejected as long as the field of view is at most 90 degrees.   *)
(***************************************************************************)
C18_ScatterKeptInsideBoundsOrCanvas ==
    \A k \in DOMAIN procedural_samples :
        /\ procedural_samples[k].kept <=>
               InRectangle(procedural_samples[k].center,
                           IF config.bounds = NoBounds
                           THEN <<0, 0, width_px, height_px>> ELSE config.bounds)
        /\ (config.bounds = NoBounds /\ scale_factor >= ONE) => procedural_samples[k].kept

\* no bounds, zoomed out: one point kept, another beyond the canvas rejected
C18_Witness ==
    /\ ScatterDone
    /\ config.bounds = NoBounds
    /\ scale_factor < ONE
    /\ \E k \in DOMAIN procedural_samples : procedural_samples[k].kept
    /\ \E k \in DOMAIN procedural_samples :
        /\ ~procedural_samples[k].kept
        /\ procedural_samples[k].center[1] > width_px * ONE

(***************************************************************************)
(* Vocabulary of the emission order.                                       *)
(***************************************************************************)
\* the place of a group in the stated order
Rank(group) ==
    IF group = "lines" THEN 1
    ELSE IF group = "stars" THEN 2
    ELSE IF group = "labels" THEN 3
    ELSE 4

Emitted(group) == \E i \in DOMAIN main_group : main_group[i] = group

BorderEmitted == \E i \in DOMAIN dwg : dwg[i] = "border"

PolylineEndpoints ==
    UNION { {polylines[q].start_hip, polylines[q].end_hip} : q \in DOMAIN polylines }

\* what holds of the drawing at every moment of a render
EmissionOrder ==
    /\ \A i, j \in DOMAIN main_group : i < j => Rank(main_group[i]) < Rank(main_group[j])
    /\ polylines # <<>> => Emitted("lines")
    /\ (star_glyphs # <<>> \/ Emitted("stars")) => Emitted("lines")
    /\ (labels # <<>> \/ Emitted("labels")) => (Emitted("stars") /\ config.show_labels)
    /\ (procedural_samples # <<>> \/ Emitted("procedural")) =>
           /\ Emitted("stars")
           /\ config.show_labels => Emitted("labels")
           /\ config.procedural_bg_stars
    /\ BorderEmitted =>
           /\ config.circular_mask
           /\ dwg[Len(dwg)] = "border"
           /\ \E i \in DOMAIN dwg : dwg[i] = "main_group" /\ i < Len(dwg)
           /\ Emitted("stars")
           /\ config.procedural_bg_stars => Emitted("procedural")
    /\ Rendered =>
           /\ Emitted("lines") /\ Emitted("stars")
           /\ Emitted("labels") <=> config.show_labels
           /\ Emitted("procedural") <=> config.procedural_bg_stars
           /\ BorderEmitted <=> config.circular_mask
    /\ Emitted("lines") => constellation_visible_star_ids = PolylineEndpoints

\* once the lines are out, neither they nor the visible-via-line set change
LinesSettled ==
    Emitted("lines") =>
        /\ polylines' = polylines
        /\ constellation_visible_star_ids' = constellation_visible_star_ids

(***************************************************************************)
(* C19: a render emits the polylines, then the star glyphs, then the       *)
(* labels, then the procedural stars, then the border; the labels only     *)
(* when show_labels is set, the procedural stars only when                 *)
(* procedural_bg_stars is set, the border only when circular_mask is set;  *)
(* and the visible-via-line set is complete and final before the first     *)
(* glyph or label is decided.                                              *)
(***************************************************************************)
C19_EmissionOrder == []EmissionOrder /\ [][LinesSettled]_vars

\* everything enabled and something of every kind in the drawing
C19_Witness ==
    /\ Rendered
    /\ main_group = <<"lines", "stars", "labels", "procedural">>
    /\ BorderEmitted
    /\ polylines # <<>>
    /\ star_glyphs # <<>>
    /\ labels # <<>>
    /\ KeptSamples # {}

(***************************************************************************)
(* Vocabulary of the chart construction.                                   *)
(***************************************************************************)
ChartBuilt == pc \notin {"classify", "filter", "declutter", "chart", "call", "returned"}

\* the step that constructs the SVGChart
Constructing == pc = "chart" /\ pc' # "chart"

(***************************************************************************)
(* C20: constructing an SVGChart succeeds for every configured field of    *)
(* view: a value <= 0 is replaced by 90 before the scale factor is         *)
(* computed, a positive value is left as it is, and the scale factor is    *)
(* 90 / fov of the resulting value, hence strictly positive.               *)
(***************************************************************************)
C20_FovCorrected ==
    /\ [](pc = "chart" => ENABLED NewChart)
    /\ [][Constructing =>
            /\ config.fov_radius_deg <= 0 => config'.fov_radius_deg = 90
            /\ config.fov_radius_deg > 0 => config'.fov_radius_deg = config.fov_radius_deg
            /\ scale_factor' > 0
            /\ scale_factor' * config'.fov_radius_deg = 90 * ONE]_vars

\* a chart built from a negative field of view: 90 degrees, scale factor 1
C20_Witness ==
    /\ ChartBuilt
    /\ _fov_radius_deg < 0
    /\ config.fov_radius_deg = 90
    /\ scale_factor = ONE

(***************************************************************************)
(* C21: a line with an endpoint id absent from the star map is skipped:    *)
(* it has no polyline and puts neither endpoint into the visible-via-line  *)
(* set, so a present endpoint all of whose lines lack a partner has no     *)
(* glyph; every other line, of the same or of another constellation, is    *)
(* still processed and drawn when all its samples are inside the bounds.   *)
(***************************************************************************)
LinesThrough(h) == { l \in LinesOfChart : h = l[1] \/ h = l[2] }

C21_MissingEndpointSkipped ==
    StarsDrawn =>
        /\ \A l \in LinesOfChart : ~Mapped(l) =>
               /\ ~HasPolyline(l)
               /\ \A h \in {l[1], l[2]} :
                      /\ h \in constellation_visible_star_ids =>
                             \E m \in LinesThrough(h) : Mapped(m) /\ HasPolyline(m)
                      /\ (\A m \in LinesThrough(h) : ~Mapped(m)) => ~HasGlyph(h)
        /\ \A m \in LinesOfChart :
               Mapped(m) /\ OutsideSamples(m) = {} => HasPolyline(m)

\* a line without its partner is followed, in the same constellation, by a
\* line that is drawn; the skipped line has a present endpoint
C21_Witness ==
    /\ StarsDrawn
    /\ \E c \in Range(constellations) : \E i, j \in DOMAIN c.lines :
        /\ i < j
        /\ ~Mapped(c.lines[i])
        /\ c.lines[i][1] \in VisibleHips
        /\ HasPolyline(c.lines[j])

(***************************************************************************)
(* StarForge: the fluent API.  The engine and the chart are taken as one   *)
(* step each: the star list is the record of the arguments it was computed *)
(* from, the chart the record of what SVGChart was constructed with.       *)
(***************************************************************************)
MaxCalls == 3

INFO == 1

SUCCESS == 2

WARNING == 3

ERROR == 4

SILENT == 5

None == <<>>

Some(v) == <<v>>

\* print(), behind the level test when it is one of the Log methods
Shown(level, m) == IF m.via = "Log" THEN level <= m.severity ELSE TRUE

LogMsg(severity, text) == [via |-> "Log", severity |-> severity, text |-> text]

PrintMsg(severity, text) == [via |-> "print", severity |-> severity, text |-> text]

\* the frames a Spinner writes to sys.stdout while its block runs
Spinner(message) == [via |-> "stdout", severity |-> INFO, text |-> message]

WhenVerbose(verbose, msgs) == IF verbose THEN msgs ELSE {}

\* the exact names, and one misspelling the similarity search still matches
Gazetteer ==
    [q \in {"Delhi", "Pariss"} |->
        IF q = "Delhi"
        THEN [latitude |-> 28, longitude |-> 77, name |-> "Delhi, IN", matched |-> FALSE]
        ELSE [latitude |-> 48, longitude |-> 2, name |-> "Paris, FR", matched |-> TRUE]]

Queries == DOMAIN Gazetteer \cup {"Atlantis"}

\* resolve_location returns; otherwise it raises ValueError
Resolvable(query) == query \in DOMAIN Gazetteer

\* what resolve_location itself logs
resolve_location_said(query) ==
    IF Resolvable(query) /\ Gazetteer[query].matched
    THEN {LogMsg(INFO, "Matched")} ELSE {}

\* StarForge._resolve_location: the fields it sets, what it says, whether it raises
_resolve_location(query, verbose) ==
    IF Resolvable(query)
    THEN [raised |-> FALSE,
          latitude |-> Some(Gazetteer[query].latitude),
          longitude |-> Some(Gazetteer[query].longitude),
          place_name |-> Some(Gazetteer[query].name),
          said |-> resolve_location_said(query)
                   \cup WhenVerbose(verbose, {Spinner("Resolving location"),
                                              LogMsg(INFO, "Location resolved")})]
    ELSE [raised |-> TRUE,
          latitude |-> _latitude, longitude |-> _longitude, place_name |-> _place_name,
          said |-> {LogMsg(ERROR, "Could not resolve location")}
                   \cup WhenVerbose(verbose, {Spinner("Resolving location"),
                                              LogMsg(ERROR, "Resolving location failed!")})]

\* the engine, by its arguments
calculate_celestial_positions(lat, lon, dt_utc, limit) ==
    [latitude |-> lat, longitude |-> lon, dt_utc |-> dt_utc, magnitude_limit |-> limit]

\* no star is brighter than magnitude -1.5
NoStars(stars) == stars.magnitude_limit < 0 - 1

\* datetime.now() when no time was set
observation_time == IF _datetime = None THEN clock ELSE _datetime[1]

\* the strings at_date can parse, as days before the session
ParsedDates == [s \in {"2007-06-24"} |-> 0 - 1]

_parse_date_string(dt_str) ==
    IF dt_str \in DOMAIN ParsedDates THEN ParsedDates[dt_str] ELSE clock

_parse_date_string_said(dt_str) ==
    IF dt_str \in DOMAIN ParsedDates THEN {}
    ELSE WhenVerbose(_verbose, {LogMsg(WARNING, "Could not parse date string")})

Outcome(op, raised, said, engine, chart) ==
    [op |-> op, raised |-> raised, said |-> said,
     printed |-> { m \in said : Shown(_level, m) },
     engine |-> engine, chart |-> chart]

\* a call that returns self and says nothing
Returns(op) ==
    /\ last_call' = Outcome(op, FALSE, {}, FALSE, None)
    /\ clock' = clock + 1

Ready == pc = "ready" /\ clock < MaxCalls

engineVars == <<stars_df, constellations, magnitude_limit, config, call, result,
                calcVars, chartVars, sceneVars>>

locationVars == <<_location_query, _latitude, _longitude, _place_name, _location_resolved>>

\* Config() with the fields the styling methods write
DefaultConfig ==
    [width_px |-> width_px, height_px |-> height_px,
     background_color |-> "#000000", constellation_star_size |-> 14,
     constellation_line_width |-> 8, label_font_size |-> "12px",
     procedural_bg_stars |-> FALSE, num_procedural_stars |-> 300,
     circular_mask |-> FALSE, show_labels |-> TRUE, fov_radius_deg |-> 90,
     sphere_effect |-> FALSE, sphere_distortion_strength |-> (6 * ONE) \div 10,
     bend_strength |-> (2 * ONE) \div 100,
     star_icon_main_file |-> "None", bounds |-> NoBounds]

\* a configuration made by the caller
CallerConfigs ==
    { [DefaultConfig EXCEPT !.fov_radius_deg = 0 - 45, !.show_labels = FALSE] }

\* files that do not exist, hold no path element, are not XML
IconFiles == {"missing.svg", "nopath.svg", "broken.svg"}

StarForge__init__ ==
    /\ pc = "new"
    /\ \E location \in {"Delhi", "Atlantis"}, verbose \in BOOLEAN :
        LET res == IF verbose THEN _resolve_location(location, verbose)
                   ELSE [raised |-> FALSE, latitude |-> None, longitude |-> None,
                         place_name |-> None, said |-> {}]
        IN  /\ _location_query' = location
            /\ _verbose' = verbose
            /\ _latitude' = res.latitude
            /\ _longitude' = res.longitude
            /\ _place_name' = res.place_name
            /\ _location_resolved' = (verbose /\ ~res.raised)
            /\ last_call' = Outcome("__init__", res.raised, res.said, FALSE, None)
            /\ pc' = IF res.raised THEN "failed" ELSE "ready"
    /\ _datetime' = None
    /\ _astronomy_loaded' = FALSE
    /\ _visible_stars' = None
    /\ _calculated' = FALSE
    /\ _config' = DefaultConfig
    /\ _magnitude_limit' = 6
    /\ _fov_radius_deg' = 90
    /\ _show_labels' = TRUE
    /\ UNCHANGED <<_level, clock, engineVars>>

\* the properties latitude, longitude and place_name resolve on first use
latitude ==
    /\ Ready
    /\ LET res == IF _location_resolved
                  THEN [raised |-> FALSE, latitude |-> _latitude, longitude |-> _longitude,
                        place_name |-> _place_name, said |-> {}]
                  ELSE _resolve_location(_location_query, _verbose)
       IN  /\ _latitude' = res.latitude
           /\ _longitude' = res.longitude
           /\ _place_name' = res.place_name
           /\ _location_resolved' = ~res.raised
           /\ last_call' = Outcome("latitude", res.raised, res.said, FALSE, None)
    /\ clock' = clock + 1
    /\ UNCHANGED <<_location_query, _verbose, _datetime, _astronomy_loaded, _visible_stars,
                   _calculated, _config, _magnitude_limit, _fov_radius_deg, _show_labels,
                   _level, pc, engineVars>>

at_location ==
    /\ Ready
    /\ \E location \in Queries : _location_query' = location
    /\ _location_resolved' = FALSE
    /\ _calculated' = FALSE
    /\ Returns("at_location")
    /\ UNCHANGED <<_verbose, _latitude, _longitude, _place_name, _datetime,
                   _astronomy_loaded, _visible_stars, _config, _magnitude_limit,
                   _fov_radius_deg, _show_labels, _level, pc, engineVars>>

at_coordinates ==
    /\ Ready
    /\ _latitude' = Some(10)
    /\ _longitude' = Some(20)
    /\ _place_name' = Some("Coordinates 10, 20")
    /\ _location_resolved' = TRUE
    /\ _calculated' = FALSE
    /\ Returns("at_coordinates")
    /\ UNCHANGED <<_location_query, _verbose, _datetime, _astronomy_loaded, _visible_stars,
                   _config, _magnitude_limit, _fov_radius_deg, _show_labels, _level, pc,
                   engineVars>>

\* everything a time or magnitude method leaves alone
keptByTimeMethods == <<locationVars, _verbose, _astronomy_loaded, _visible_stars, _config,
                       _fov_radius_deg, _show_labels, _level, pc, engineVars>>

at_date ==
    /\ Ready
    /\ \E dt \in {"2007-06-24", "someday"} :
        /\ _datetime' = Some(_parse_date_string(dt))
        /\ last_call' = Outcome("at_date", FALSE, _parse_date_string_said(dt), FALSE, None)
    /\ _calculated' = FALSE
    /\ clock' = clock + 1
    /\ UNCHANGED <<keptByTimeMethods, _magnitude_limit>>

at_datetime ==
    /\ Ready
    /\ _datetime' = Some(0 - 2)
    /\ _calculated' = FALSE
    /\ Returns("at_datetime")
    /\ UNCHANGED <<keptByTimeMethods, _magnitude_limit>>

now ==
    /\ Ready
    /\ _datetime' = Some(clock)
    /\ _calculated' = FALSE
    /\ Returns("now")
    /\ UNCHANGED <<keptByTimeMethods, _magnitude_limit>>

\* the cached list is kept
with_magnitude_limit_keeping_cache ==
    /\ Ready
    /\ _magnitude_limit' = 0 - 2
    /\ Returns("with_magnitude_limit")
    /\ UNCHANGED <<keptByTimeMethods, _datetime, _calculated>>

with_magnitude_limit ==
    /\ Ready
    /\ _magnitude_limit' = 0 - 2
    /\ _calculated' = FALSE
    /\ Returns("with_magnitude_limit")
    /\ UNCHANGED <<keptByTimeMethods, _datetime>>

\* the styling method also throws the calculation away
SetsConfigAndResets(op, cfg) ==
    /\ Ready
    /\ _config' = cfg
    /\ _calculated' = FALSE
    /\ Returns(op)
    /\ UNCHANGED <<locationVars, _verbose, _datetime, _astronomy_loaded, _visible_stars,
                   _magnitude_limit, _level, pc, engineVars>>

\* a styling method: it writes self._config and returns self
SetsConfig(op, cfg) ==
    /\ Ready
    /\ _config' = cfg
    /\ Returns(op)
    /\ UNCHANGED <<locationVars, _verbose, _datetime, _astronomy_loaded, _visible_stars,
                   _calculated, _magnitude_limit, _level, pc, engineVars>>

with_fov ==
    \E degrees \in {45, 0} :
        /\ SetsConfig("with_fov", [_config EXCEPT !.fov_radius_deg = degrees])
        /\ _fov_radius_deg' = degrees
        /\ UNCHANGED _show_labels

with_labels ==
    \E show \in BOOLEAN :
        /\ SetsConfig("with_labels", [_config EXCEPT !.show_labels = show])
        /\ _show_labels' = show
        /\ UNCHANGED _fov_radius_deg

without_labels ==
    /\ SetsConfig("without_labels", [_config EXCEPT !.show_labels = FALSE])
    /\ _show_labels' = FALSE
    /\ UNCHANGED _fov_radius_deg

with_circular_mask ==
    /\ SetsConfig("with_circular_mask", [_config EXCEPT !.circular_mask = TRUE])
    /\ UNCHANGED <<_fov_radius_deg, _show_labels>>

with_sphere_effect ==
    /\ SetsConfig("with_sphere_effect",
                  [_config EXCEPT !.sphere_effect = TRUE,
                                  !.sphere_distortion_strength = (6 * ONE) \div 10])
    /\ UNCHANGED <<_fov_radius_deg, _show_labels>>

with_size ==
    /\ SetsConfig("with_size", [_config EXCEPT !.width_px = 800, !.height_px = 800])
    /\ UNCHANGED <<_fov_radius_deg, _show_labels>>

with_colors ==
    /\ SetsConfig("with_colors", [_config EXCEPT !.background_color = "#050505"])
    /\ UNCHANGED <<_fov_radius_deg, _show_labels>>

with_star_sizes ==
    /\ SetsConfig("with_star_sizes", [_config EXCEPT !.constellation_star_size = 20])
    /\ UNCHANGED <<_fov_radius_deg, _show_labels>>

with_line_style ==
    /\ SetsConfig("with_line_style", [_config EXCEPT !.constellation_line_width = 10])
    /\ UNCHANGED <<_fov_radius_deg, _show_labels>>

with_label_style ==
    /\ SetsConfig("with_label_style", [_config EXCEPT !.label_font_size = "14px"])
    /\ UNCHANGED <<_fov_radius_deg, _show_labels>>

with_bend_strength ==
    /\ SetsConfig("with_bend_strength", [_config EXCEPT !.bend_strength = 0])
    /\ UNCHANGED <<_fov_radius_deg, _show_labels>>

with_procedural_stars ==
    /\ SetsConfig("with_procedural_stars",
                  [_config EXCEPT !.procedural_bg_stars = TRUE, !.num_procedural_stars = 300])
    /\ UNCHANGED <<_fov_radius_deg, _show_labels>>

with_custom_icons ==
    /\ \E constellation_star_file \in IconFiles :
        SetsConfig("with_custom_icons",
                   [_config EXCEPT !.star_icon_main_file = constellation_star_file])
    /\ UNCHANGED <<_fov_radius_deg, _show_labels>>

with_config ==
    \E cfg \in CallerConfigs :
        /\ SetsConfig("with_config", cfg)
        /\ _fov_radius_deg' = cfg.fov_radius_deg
        /\ _show_labels' = cfg.show_labels

with_bounds ==
    /\ SetsConfig("with_bounds", [_config EXCEPT !.bounds = RightCropped])
    /\ UNCHANGED <<_fov_radius_deg, _show_labels>>

\* calculate(): what it sets and says, and whether _resolve_location raised
Calculation ==
    LET res == IF _location_resolved
               THEN [raised |-> FALSE, latitude |-> _latitude, longitude |-> _longitude,
                     place_name |-> _place_name, said |-> {}]
               ELSE _resolve_location(_location_query, _verbose)
        stars == calculate_celestial_positions(res.latitude, res.longitude,
                                               observation_time, _magnitude_limit)
    IN  [raised |-> res.raised,
         latitude |-> res.latitude, longitude |-> res.longitude,
         place_name |-> res.place_name,
         resolved |-> ~res.raised,
         loaded |-> _astronomy_loaded \/ ~res.raised,
         stars |-> IF res.raised THEN _visible_stars ELSE Some(stars),
         calculated |-> IF res.raised THEN _calculated ELSE TRUE,
         engine |-> ~res.raised,
         said |-> res.said \cup
                  IF res.raised THEN {}
                  ELSE WhenVerbose(_verbose /\ ~_astronomy_loaded,
                                   {Spinner("Loading astronomical data")})
                       \cup WhenVerbose(_verbose,
                              {LogMsg(INFO, "Computing sky"),
                               Spinner("Calculating star positions"),
                               IF NoStars(stars) THEN LogMsg(WARNING, "No stars found")
                               ELSE LogMsg(INFO, "Visible stars")})]

\* nothing to do: render() found _calculated set
Cached ==
    [raised |-> FALSE, latitude |-> _latitude, longitude |-> _longitude,
     place_name |-> _place_name, resolved |-> _location_resolved,
     loaded |-> _astronomy_loaded, stars |-> _visible_stars, calculated |-> _calculated,
     engine |-> FALSE, said |-> {}]

calculate ==
    /\ Ready
    /\ LET calc == Calculation
       IN  /\ _latitude' = calc.latitude
           /\ _longitude' = calc.longitude
           /\ _place_name' = calc.place_name
           /\ _location_resolved' = calc.resolved
           /\ _astronomy_loaded' = calc.loaded
           /\ _visible_stars' = calc.stars
           /\ _calculated' = calc.calculated
           /\ last_call' = Outcome("calculate", calc.raised, calc.said, calc.engine, None)
    /\ clock' = clock + 1
    /\ UNCHANGED <<_location_query, _verbose, _datetime, _config, _magnitude_limit,
                   _fov_radius_deg, _show_labels, _level, pc, engineVars>>

\* SVGChart.__init__ on the StarForge configuration: the corrected field of
\* view, what loading the icons says, and whether get_viewbox raised
NewSVGChart(stars, cfg) ==
    LET file == cfg.star_icon_main_file
    IN  [raised |-> file = "broken.svg",
         fov_radius_deg |-> CorrectedFov(cfg.fov_radius_deg),
         said |-> (IF cfg.fov_radius_deg <= 0
                   THEN {PrintMsg(WARNING, "Invalid fov_radius_deg")} ELSE {})
                  \cup (IF file \in {"None", "missing.svg"}
                        THEN {LogMsg(WARNING, "Star Icons not found")}
                        ELSE IF file = "nopath.svg"
                        THEN {PrintMsg(WARNING, "No supported shape found")}
                        ELSE {PrintMsg(ERROR, "Error reading SVG file")}),
         chart |-> IF file = "broken.svg" THEN None
                   ELSE Some([visible_stars |-> stars,
                              fov_radius_deg |-> CorrectedFov(cfg.fov_radius_deg),
                              show_labels |-> cfg.show_labels])]

\* render() calculates only when _calculated is not set
CalculationFor(calculated) == IF calculated THEN Cached ELSE Calculation

render ==
    /\ Ready
    /\ LET calc == CalculationFor(_calculated)
           new == NewSVGChart(calc.stars, _config)
       IN  /\ _latitude' = calc.latitude
           /\ _longitude' = calc.longitude
           /\ _place_name' = calc.place_name
           /\ _location_resolved' = calc.resolved
           /\ _astronomy_loaded' = calc.loaded
           /\ _visible_stars' = calc.stars
           /\ _calculated' = calc.calculated
           /\ IF calc.raised
              THEN /\ _config' = _config
                   /\ last_call' = Outcome("render", TRUE, calc.said, FALSE, None)
              ELSE /\ _config' = [_config EXCEPT !.fov_radius_deg = new.fov_radius_deg]
                   /\ last_call' =
                          Outcome("render", new.raised,
                                  calc.said
                                  \cup WhenVerbose(_verbose, {LogMsg(INFO, "Rendering chart")})
                                  \cup new.said
                                  \cup WhenVerbose(_verbose /\ ~new.raised,
                                                   {LogMsg(SUCCESS, "Saved")}),
                                  calc.engine, new.chart)
    /\ clock' = clock + 1
    /\ UNCHANGED <<_location_query, _verbose, _datetime, _magnitude_limit,
                   _fov_radius_deg, _show_labels, _level, pc, engineVars>>

\* before StarForge(...) is called
NoObject ==
    /\ _location_query = ""
    /\ _verbose = FALSE
    /\ _latitude = None
    /\ _longitude = None
    /\ _place_name = None
    /\ _location_resolved = FALSE
    /\ _datetime = None
    /\ _astronomy_loaded = FALSE
    /\ _visible_stars = None
    /\ _calculated = FALSE
    /\ _config = None
    /\ _magnitude_limit = 6
    /\ _show_labels = TRUE
    /\ clock = 0
    /\ last_call = None

\* Log.set_level, then nothing constructed yet
InitForge ==
    /\ _level \in {INFO, ERROR, SILENT}
    /\ NoObject
    /\ _fov_radius_deg = 90
    /\ pc = "new"
    /\ stars_df = <<>>
    /\ constellations = <<>>
    /\ magnitude_limit = 6
    /\ config = DefaultConfig
    /\ call = <<>>
    /\ result = <<>>
    /\ NothingComputed

NextForge ==
    \/ StarForge__init__
    \/ latitude
    \/ at_location
    \/ at_coordinates
    \/ at_date
    \/ at_datetime
    \/ now
    \/ with_magnitude_limit
    \/ with_fov
    \/ with_labels
    \/ without_labels
    \/ with_circular_mask
    \/ with_sphere_effect
    \/ with_size
    \/ with_colors
    \/ with_star_sizes
    \/ with_line_style
    \/ with_label_style
    \/ with_bend_strength
    \/ with_procedural_stars
    \/ with_custom_icons
    \/ with_config
    \/ with_bounds
    \/ calculate
    \/ render

SpecForge == InitForge /\ [][NextForge]_vars

(***************************************************************************)
(* create_starmap, the legacy entry point                                  *)
(***************************************************************************)
\* the Config create_starmap builds when the caller passes none
LegacyConfig(fov_radius_deg, show_labels) ==
    [DefaultConfig EXCEPT !.background_color = "#050505",
                          !.constellation_line_width = 10,
                          !.show_labels = show_labels,
                          !.fov_radius_deg = fov_radius_deg]

StyleConfigFor(style_config, fov_radius_deg, show_labels) ==
    IF style_config = None THEN LegacyConfig(fov_radius_deg, show_labels)
    ELSE style_config[1]

\* what the caller may pass as style_config
StyleConfigs ==
    {None, Some([DefaultConfig EXCEPT !.circular_mask = TRUE])}
    \cup { Some(c) : c \in CallerConfigs }

LegacyCalls ==
    [location : Queries, dt_utc : {"None", "2007-06-24", "someday"},
     magnitude_limit : {4}, fov_radius_deg : {90, 75, 0},
     show_labels : BOOLEAN, style_config : StyleConfigs]

\* step 2 of create_starmap: the observation time
LegacyTime(dt_utc) == IF dt_utc = "None" THEN clock ELSE _parse_date_string(dt_utc)

create_starmap ==
    /\ pc = "legacy"
    /\ clock < MaxCalls
    /\ \E args \in LegacyCalls :
        LET stars == calculate_celestial_positions(
                         Some(Gazetteer[args.location].latitude),
                         Some(Gazetteer[args.location].longitude),
                         LegacyTime(args.dt_utc), args.magnitude_limit)
            cfg == StyleConfigFor(args.style_config, args.fov_radius_deg, args.show_labels)
            new == NewSVGChart(Some(stars), cfg)
        IN  /\ call' = args
            /\ last_call' =
                 IF ~Resolvable(args.location)
                 THEN Outcome("create_starmap", FALSE,
                              {Spinner("Resolving location"),
                               LogMsg(ERROR, "Resolving location failed!"),
                               LogMsg(ERROR, "Could not resolve location")},
                              FALSE, None)
                 ELSE Outcome("create_starmap", new.raised,
                              resolve_location_said(args.location)
                              \cup {Spinner("Resolving location"),
                                    LogMsg(INFO, "Location resolved"),
                                    Spinner("Loading astronomical data"),
                                    LogMsg(INFO, "Computing sky"),
                                    Spinner("Calculating star positions"),
                                    IF NoStars(stars) THEN LogMsg(WARNING, "No stars found")
                                    ELSE LogMsg(INFO, "Visible stars"),
                                    LogMsg(INFO, "Rendering chart")}
                              \cup (IF args.dt_utc \in DOMAIN ParsedDates \cup {"None"} THEN {}
                                    ELSE {LogMsg(WARNING, "Could not parse date string")})
                              \cup new.said
                              \cup (IF new.raised THEN {} ELSE {LogMsg(SUCCESS, "Saved")}),
                              TRUE, new.chart)
    /\ clock' = clock + 1
    /\ UNCHANGED <<stars_df, constellations, magnitude_limit, config, result, calcVars,
                   chartVars, sceneVars, _fov_radius_deg, pc, _location_query, _verbose,
                   _latitude, _longitude, _place_name, _location_resolved, _datetime,
                   _astronomy_loaded, _visible_stars, _calculated, _config,
                   _magnitude_limit, _show_labels, _level>>

\* Log.set_level, then calls of create_starmap
InitLegacy ==
    /\ _level \in {INFO, ERROR, SILENT}
    /\ NoObject
    /\ _fov_radius_deg = 90
    /\ pc = "legacy"
    /\ stars_df = <<>>
    /\ constellations = <<>>
    /\ magnitude_limit = 6
    /\ config = DefaultConfig
    /\ call = <<>>
    /\ result = <<>>
    /\ NothingComputed

NextLegacy == create_starmap

SpecLegacy == InitLegacy /\ [][NextLegacy]_vars

(***************************************************************************)
(* Vocabulary of the API properties.                                       *)
(***************************************************************************)
\* some call of the public API has been made and last_call describes it
Called == pc \in {"ready", "failed"} \/ (pc = "legacy" /\ clock > 0)

\* resolve_location raised ValueError during the last call
LocationFailed ==
    \E m \in last_call.said : m.severity = 4 /\ m.text = "Could not resolve location"

(***************************************************************************)
(* C22: when the location query cannot be resolved, the request fails and  *)
(* the failure is surfaced to the caller: the call raises, the engine is   *)
(* not invoked and no SVGChart is constructed.  Stated for create_starmap. *)
(***************************************************************************)
C22_UnresolvedLocationFails ==
    (Called /\ LocationFailed) =>
        /\ last_call.raised
        /\ ~last_call.engine
        /\ last_call.chart = <<>>

(***************************************************************************)
(* The same for the StarForge constructor, calculate() and render().       *)
(***************************************************************************)
C22_StarForgeRaises ==
    (Called /\ LocationFailed) =>
        /\ last_call.op \in {"__init__", "latitude", "calculate", "render"}
        /\ last_call.raised
        /\ ~last_call.engine
        /\ last_call.chart = <<>>
        /\ ~_location_resolved
        /\ ~_calculated

(***************************************************************************)
(* C24: create_starmap renders with the field of view of its               *)
(* fov_radius_deg argument (90 when that is not positive) and with labels  *)
(* iff its show_labels argument is true, whatever style_config is.         *)
(***************************************************************************)
C24_LegacyArgumentsApplied ==
    (Called /\ last_call.op = "create_starmap" /\ last_call.chart # <<>>) =>
        /\ last_call.chart[1].fov_radius_deg =
               (IF call.fov_radius_deg > 0 THEN call.fov_radius_deg ELSE 90)
        /\ last_call.chart[1].show_labels = call.show_labels

(***************************************************************************)
(* C23: render() calculates by itself when no calculation is current, and  *)
(* the star list handed to SVGChart was computed for the location, the     *)
(* time and the magnitude limit the object holds now: a cached list is     *)
(* used only while none of them was replaced.  With no time set the list   *)
(* carries the clock reading of its own calculation.                       *)
(***************************************************************************)
\* the star list `stars` was computed for the present fields of the object
ComputedForPresent(stars) ==
    /\ stars # <<>>
    /\ stars[1].latitude = _latitude
    /\ stars[1].longitude = _longitude
    /\ stars[1].magnitude_limit = _magnitude_limit
    /\ IF _datetime = <<>> THEN stars[1].dt_utc \in 0..(clock - 1)
       ELSE stars[1].dt_utc = _datetime[1]

ChartBuiltByRender == pc = "ready" /\ last_call.op = "render" /\ last_call.chart # <<>>

C23_StarListIsCurrent ==
    /\ (pc = "ready" /\ _calculated) => (_location_resolved /\ ComputedForPresent(_visible_stars))
    /\ ChartBuiltByRender =>
           /\ _calculated
           /\ last_call.chart[1].visible_stars = _visible_stars
           /\ ComputedForPresent(last_call.chart[1].visible_stars)

\* a render that had to calculate, at the third call, for the replaced
\* magnitude limit and a time set by at_date
C23_Witness ==
    /\ ChartBuiltByRender
    /\ last_call.engine
    /\ clock = 3
    /\ _magnitude_limit = 0 - 2
    /\ last_call.chart[1].visible_stars[1].magnitude_limit = 0 - 2
    /\ last_call.chart[1].visible_stars[1].dt_utc = 0 - 1

(***************************************************************************)
(* C25: under LogLevel.SILENT with verbose=False no call writes anything   *)
(* to the console; at any other level a message of severity S is printed   *)
(* iff the level is <= S.                                                   *)
(***************************************************************************)
C25_LevelDecidesConsole ==
    Called =>
        /\ (_level = 5 /\ ~_verbose /\ last_call.op # "create_starmap")
               => last_call.printed = {}
        /\ _level # 5 =>
               \A m \in last_call.said :
                   m.via # "stdout" => (m \in last_call.printed <=> _level <= m.severity)

(***************************************************************************)
(* C26: the field of view StarForge reports equals the one of its          *)
(* configuration after any sequence of calls.                              *)
(***************************************************************************)
C26_FovMirrorsConfig ==
    pc = "ready" => _fov_radius_deg = _config.fov_radius_deg

(***************************************************************************)
(* C30: a styling method leaves the location, the time, the magnitude      *)
(* limit, the cached star list and _calculated as they were, and a render  *)
(* that finds _calculated set does not calculate again.                    *)
(***************************************************************************)
StylingMethods ==
    {"with_fov", "with_labels", "without_labels", "with_circular_mask",
     "with_sphere_effect", "with_size", "with_colors", "with_star_sizes",
     "with_line_style", "with_label_style", "with_bend_strength",
     "with_procedural_stars", "with_custom_icons", "with_config", "with_bounds"}

StylingCall == pc = "ready" /\ clock' = clock + 1 /\ last_call'.op \in StylingMethods

CachedRender == pc = "ready" /\ clock' = clock + 1 /\ last_call'.op = "render" /\ _calculated

C30_StylingKeepsCalculation ==
    /\ [][StylingCall =>
            UNCHANGED <<_location_query, _latitude, _longitude, _place_name,
                        _location_resolved, _datetime, _magnitude_limit,
                        _visible_stars, _calculated>>]_vars
    /\ [][CachedRender =>
            /\ ~last_call'.engine
            /\ _visible_stars' = _visible_stars
            /\ last_call'.chart # <<>> =>
                   last_call'.chart[1].visible_stars = _visible_stars]_vars

\* a chart built from the cache after the mask was switched on
C30_Witness ==
    /\ ChartBuiltByRender
    /\ ~last_call.engine
    /\ _config.circular_mask
    /\ _calculated

(***************************************************************************)
(* C27: the declutter is maximal and prefers brightness: every above-      *)
(* horizon background candidate within the magnitude limit that is not     *)
(* returned lies at a squared distance below 0.03^2 from an above-horizon  *)
(* constellation star or from a returned background star that is not       *)
(* fainter than it; none is left out because of a strictly fainter one.    *)
(***************************************************************************)
\* a row whose presence in the output can have rejected the candidate row i
BlockersOf(i) ==
    { j \in AboveRowIndexes :
        /\ j # i
        /\ SqDist(stars_df[j], stars_df[i]) < min_dist_sq
        /\ \/ stars_df[j].hip \in MemberIdSet
           \/ /\ stars_df[j].hip \in VisibleHips
              /\ stars_df[j].mag <= stars_df[i].mag }

C27_DeclutterMaximal ==
    Returned =>
        \A i \in CandidateIndexes :
            stars_df[i].hip \notin VisibleHips => BlockersOf(i) # {}

\* a candidate left out for a brighter background star alone, while a
\* candidate at exactly 0.03 from a returned star is itself returned
C27_Witness ==
    /\ Returned
    /\ \E i \in CandidateIndexes :
        /\ stars_df[i].hip \notin VisibleHips
        /\ \A j \in BlockersOf(i) :
               stars_df[j].hip \notin MemberIdSet /\ stars_df[j].mag < stars_df[i].mag
    /\ \E i, j \in CandidateIndexes :
        /\ stars_df[i].hip \in VisibleHips
        /\ stars_df[j].hip \in VisibleHips
        /\ SqDist(stars_df[i], stars_df[j]) = min_dist_sq

(***************************************************************************)
(* C28 as stated: a label is emitted for a name only if a line of a        *)
(* constellation of that name has a polyline in this render.               *)
(***************************************************************************)
OwnLineDrawn(name) ==
    \E c \in Range(constellations) :
        c.name = name /\ \E l \in Range(c.lines) : HasPolyline(l)

C28_LabelOnlyWithOwnLine ==
    LabelsDrawn => \A k \in DOMAIN labels : OwnLineDrawn(labels[k].name)

(***************************************************************************)
(* C28 amended: a label is emitted for a name only if a star of the lines  *)
(* kept for that name (the last list given for it) is an endpoint of a     *)
(* polyline of this render, of whichever constellation.                    *)
(***************************************************************************)
\* the lines of the last constellation carrying the name
KeptLines(name) ==
    LET last == CHOOSE i \in DOMAIN constellations :
                    /\ constellations[i].name = name
                    /\ \A j \in DOMAIN constellations :
                           constellations[j].name = name => j <= i
    IN  Range(constellations[last].lines)

C28_LabelOnlyWithStarOnPolyline ==
    LabelsDrawn =>
        \A k \in DOMAIN labels :
            /\ \E c \in Range(constellations) : c.name = labels[k].name
            /\ \E l \in KeptLines(labels[k].name) : \E h \in {l[1], l[2]} :
                   \E q \in DOMAIN polylines :
                       h \in {polylines[q].start_hip, polylines[q].end_hip}

\* a labelled constellation none of whose own lines was drawn
C28_Witness ==
    /\ LabelsDrawn
    /\ \E k \in DOMAIN labels : ~OwnLineDrawn(labels[k].name)
    /\ polylines # <<>>

(***************************************************************************)
(* C29: with no distortion in effect (no spherize, bend strength 0) and    *)
(* bounds configured, the anchor of every emitted label lies inside the    *)
(* bounds rectangle.                                                       *)
(***************************************************************************)
\* the anchor (sum_x / n, sum_y / n), in 1/ONE pixels, is within the bounds
AnchorInBounds(label) ==
    /\ config.bounds[1] * ONE * label.n <= label.sum_x
    /\ label.sum_x <= config.bounds[3] * ONE * label.n
    /\ config.bounds[2] * ONE * label.n <= label.sum_y
    /\ label.sum_y <= config.bounds[4] * ONE * label.n

Undistorted == ~config.sphere_effect /\ config.bend_strength = 0

C29_UndistortedAnchorInBounds ==
    (LabelsDrawn /\ Undistorted /\ config.bounds # <<>>) =>
        \A k \in DOMAIN labels : labels[k].n > 0 /\ AnchorInBounds(labels[k])

\* a label over two distinct positions on a chart where a star of the
\* visible list lies outside the bounds
C29_Witness ==
    /\ LabelsDrawn
    /\ Undistorted
    /\ config.bounds # <<>>
    /\ \E k \in DOMAIN labels : labels[k].n = 2
    /\ \E k \in DOMAIN visible_stars : ~InsideBounds(OwnCanvasPosition(visible_stars[k]))

=============================================================================
